---- MODULE Spec2Model ----
(***************************************************************************)
(* lazyrss: the in-memory state engine of the feed reader (src/src/app.rs) *)
(* with the record store (src/src/db.rs) and the background tasks that     *)
(* report to the event loop (src/src/main.rs).                             *)
(*                                                                         *)
(* Strings.  A string is a sequence of characters; the three-character     *)
(* separator " > " is the single character SEP, which sorts below every    *)
(* other character (a space sorts below letters and digits).  A group      *)
(* path and a title are such sequences; the empty string is <<>>.          *)
(* Options.  Option<usize> / Option<i64> are integers, None is -1.         *)
(***************************************************************************)
EXTENDS Integers, Sequences, FiniteSets, Bags, TLC

VARIABLES
    feeds,                  \* App.feeds: Vec<db::Feed>
    feed_list_items,        \* App.feed_list_items: Vec<FeedListItem>
    feeds_state,            \* App.feeds_state.selected(), 0-based, None = -1
    collapsed_groups,       \* App.collapsed_groups: HashSet<String>
    empty_groups,           \* App.empty_groups: Vec<String>
    articles,               \* App.articles: Vec<db::Article>
    articles_state,         \* App.articles_state.selected(), 0-based, None = -1
    selected_article_id,    \* App.selected_article_id: Option<i64>
    article_content,        \* App.article_content (EmptyContent or the rendered article)
    article_content_lines,  \* App.article_content_lines
    article_scroll,         \* App.article_scroll
    active_pane,            \* App.active_pane
    is_refreshing,          \* App.is_refreshing
    pending_refreshes,      \* App.pending_refreshes
    skip_articles_reload_after_feeds_load,
    refresh_on_startup_pending,
    store,                  \* the articles table: article id -> "absent" | "unread" | "read"
                            \* (in SyncSpec: the feeds table, each row with its number of articles)
    tasks,                  \* bag of background tasks that have not yet been consumed
    actions_used,           \* number of task-starting user actions issued so far
    stale,                  \* history: the store's unread counts changed after the last applied snapshot was read
    config,                 \* App.config.feeds: Vec<FeedConfigItem>
    clipboard,              \* App.clipboard: Option<ClipboardItem>
    status_message,         \* App.status_message (the kind of message shown)
    cut_history,            \* history: the config tree before and after the latest Cut
    last                    \* history: the step taken last

vars == <<feeds, feed_list_items, feeds_state, collapsed_groups, empty_groups,
          articles, articles_state, selected_article_id, article_content,
          article_content_lines, article_scroll, active_pane, is_refreshing,
          pending_refreshes, skip_articles_reload_after_feeds_load,
          refresh_on_startup_pending, store, tasks, actions_used, stale, config,
          clipboard, status_message, cut_history, last>>

configVars == <<config, clipboard, status_message, cut_history>>

feedListVars == <<feeds, feed_list_items, feeds_state, collapsed_groups, empty_groups>>

routerVars == <<articles, articles_state, selected_article_id, article_content,
                article_content_lines, article_scroll, active_pane, is_refreshing,
                pending_refreshes, skip_articles_reload_after_feeds_load,
                refresh_on_startup_pending, store, tasks, actions_used, stale>>

None == 0 - 1

\* String::new(): the cleared article_content
EmptyContent == 0

(***************************************************************************)
(* The feeds section of the configuration (config.rs): a forest of         *)
(* FeedConfigItem values.  A title is a string (a sequence of letters); a  *)
(* URL is a number.                                                        *)
(***************************************************************************)
\* FeedConfigItem::Standalone(FeedSource {title, url, feed})
FeedSource(url, feed) ==
    [kind |-> "Standalone", title |-> <<url>>, url |-> url, feed |-> feed, feeds |-> <<>>]

\* FeedConfigItem::Group(FeedGroup {title, feeds})
FeedGroup(title, items) ==
    [kind |-> "Group", title |-> title, url |-> None, feed |-> None, feeds |-> items]

\* the configuration the store of the event-loop specifications was synced from
InitialConfig ==
    <<FeedGroup(<<1>>, <<FeedSource(1, 1), FeedGroup(<<2>>, <<FeedSource(2, 2)>>)>>)>>

\* Option<FeedSource> / Option<FeedGroup>: None
NoItem == [kind |-> "NoItem"]

\* clipboard: None
NoClipboard == [kind |-> "None"]

NoCut == [before |-> <<>>, after |-> <<>>]

Min(S) == CHOOSE x \in S : \A y \in S : x <= y

Range(s) == {s[i] : i \in 1..Len(s)}

RECURSIVE SumSeq(_)
SumSeq(s) == IF s = <<>> THEN 0 ELSE Head(s) + SumSeq(Tail(s))

\* Vec::iter().filter(p).collect() for a set of kept indices
RECURSIVE FilterIdx(_, _, _)
FilterIdx(s, keep, i) ==
    IF i > Len(s) THEN <<>>
    ELSE (IF i \in keep THEN <<s[i]>> ELSE <<>>) \o FilterIdx(s, keep, i + 1)

(***************************************************************************)
(* Group paths                                                             *)
(***************************************************************************)
SEP == 0

\* str::split(" > "): always at least one component
RECURSIVE SplitPath(_)
SplitPath(s) ==
    IF \A i \in 1..Len(s) : s[i] # SEP THEN <<s>>
    ELSE LET k == Min({i \in 1..Len(s) : s[i] = SEP})
         IN  <<SubSeq(s, 1, k - 1)>> \o SplitPath(SubSeq(s, k + 1, Len(s)))

\* [..].join(" > ")
RECURSIVE JoinPath(_)
JoinPath(segs) ==
    IF segs = <<>> THEN <<>>
    ELSE IF Len(segs) = 1 THEN segs[1]
    ELSE segs[1] \o <<SEP>> \o JoinPath(Tail(segs))

\* Ord for String: lexicographic, a proper prefix first
StrLess(a, b) ==
    \E k \in 1..(Len(a) + 1) :
        /\ \A j \in 1..(k - 1) : j <= Len(b) /\ a[j] = b[j]
        /\ \/ k = Len(a) + 1 /\ Len(b) >= k
           \/ k <= Len(a) /\ k <= Len(b) /\ a[k] < b[k]

\* Vec<String>::sort() of a duplicate-free collection
RECURSIVE SortPaths(_)
SortPaths(S) ==
    IF S = {} THEN <<>>
    ELSE LET m == CHOOSE x \in S : \A y \in S \ {x} : StrLess(x, y)
         IN  <<m>> \o SortPaths(S \ {m})

(***************************************************************************)
(* GroupTree builder                                                       *)
(***************************************************************************)
GroupNode(title, full_path, fs, children) ==
    [title |-> title, full_path |-> full_path, unread_count |-> 0,
     feeds |-> fs, children |-> children]

\* a count of the direct feeds only
calculate_unread_count_Direct(node) ==
    SumSeq([i \in 1..Len(node.feeds) |-> node.feeds[i].unread_count])

RECURSIVE calculate_unread_count(_)
calculate_unread_count(node) ==
    SumSeq([i \in 1..Len(node.feeds) |-> node.feeds[i].unread_count])
    + SumSeq([i \in 1..Len(node.children) |-> calculate_unread_count(node.children[i])])

RECURSIVE update_unread_counts(_)
update_unread_counts(node) ==
    [node EXCEPT !.unread_count = calculate_unread_count(node),
                 !.children = [i \in 1..Len(node.children) |->
                                  update_unread_counts(node.children[i])]]

\* an insertion that never looks for an existing node
RECURSIVE insert_into_tree_AlwaysNew(_, _, _, _, _)
insert_into_tree_AlwaysNew(nodes, components, full_path, fs, depth) ==
    IF depth >= Len(components) THEN nodes
    ELSE IF depth = Len(components) - 1
    THEN Append(nodes, GroupNode(components[depth + 1], full_path, fs, <<>>))
    ELSE Append(nodes,
           GroupNode(components[depth + 1], JoinPath(SubSeq(components, 1, depth + 1)), <<>>,
                     insert_into_tree_AlwaysNew(<<>>, components, full_path, fs, depth + 1)))

RECURSIVE insert_into_tree(_, _, _, _, _)
insert_into_tree(nodes, components, full_path, fs, depth) ==
    IF depth >= Len(components) THEN nodes
    ELSE
      LET current_title == components[depth + 1]
          is_last_component == depth = Len(components) - 1
          existing == {i \in 1..Len(nodes) : nodes[i].title = current_title}
      IN
        IF existing # {} THEN
          LET pos == Min(existing) IN
            IF is_last_component
            THEN [nodes EXCEPT ![pos].feeds = nodes[pos].feeds \o fs]
            ELSE [nodes EXCEPT ![pos].children =
                    insert_into_tree(nodes[pos].children, components, full_path, fs, depth + 1)]
        ELSE
          IF is_last_component
          THEN Append(nodes, GroupNode(current_title, full_path, fs, <<>>))
          ELSE Append(nodes,
                 GroupNode(current_title, JoinPath(SubSeq(components, 1, depth + 1)), <<>>,
                           insert_into_tree(<<>>, components, full_path, fs, depth + 1)))

\* path_to_feeds.get(path): the feeds of that group, in input order
FeedsOfPath(fs, path) ==
    FilterIdx(fs, {i \in 1..Len(fs) : fs[i].group_title = path}, 1)

RECURSIVE InsertPaths(_, _, _, _)
InsertPaths(nodes, all_paths, fs, i) ==
    IF i > Len(all_paths) THEN nodes
    ELSE InsertPaths(
           insert_into_tree(nodes, SplitPath(all_paths[i]), all_paths[i],
                            FeedsOfPath(fs, all_paths[i]), 0),
           all_paths, fs, i + 1)

\* the distinct elements of a sequence in the order of their first occurrence
RECURSIVE Dedup(_, _)
Dedup(s, seen) ==
    IF s = <<>> THEN <<>>
    ELSE IF Head(s) \in seen THEN Dedup(Tail(s), seen)
    ELSE <<Head(s)>> \o Dedup(Tail(s), seen \cup {Head(s)})

\* a builder that inserts the paths in the order of the input, unsorted
build_group_tree_Unsorted(fs, empties) ==
    LET all_paths == Dedup([i \in 1..Len(fs) |-> fs[i].group_title] \o empties, {<<>>})
        root      == InsertPaths(<<>>, all_paths, fs, 1)
    IN  [i \in 1..Len(root) |-> update_unread_counts(root[i])]

build_group_tree(fs, empties) ==
    LET keys      == {fs[i].group_title : i \in {j \in 1..Len(fs) : fs[j].group_title # <<>>}}
        all_paths == SortPaths(keys \cup Range(empties))
        root      == InsertPaths(<<>>, all_paths, fs, 1)
    IN  [i \in 1..Len(root) |-> update_unread_counts(root[i])]

(***************************************************************************)
(* Display flattener and selection reconciler                              *)
(***************************************************************************)
AllRow(n) == [kind |-> "All", full_path |-> <<>>, collapsed |-> FALSE,
              unread_count |-> n, depth |-> 0, id |-> None, group_title |-> <<>>]

HeaderRow(node, is_collapsed, depth) ==
    [kind |-> "GroupHeader", full_path |-> node.full_path, collapsed |-> is_collapsed,
     unread_count |-> node.unread_count, depth |-> depth, id |-> None,
     group_title |-> <<>>]

\* FeedListItem::Feed { feed, depth }: the feed's fields inline
FeedRow(feed, depth) ==
    [kind |-> "Feed", full_path |-> <<>>, collapsed |-> FALSE,
     unread_count |-> feed.unread_count, depth |-> depth, id |-> feed.id,
     group_title |-> feed.group_title]

\* a flattener that hides the header of a collapsed group with its rows
add_tree_node_HideCollapsed(node, depth, parent_collapsed, collapsed) ==
    IF parent_collapsed \/ node.full_path \in collapsed THEN <<>>
    ELSE <<HeaderRow(node, FALSE, depth)>> \o
         [i \in 1..Len(node.feeds) |-> FeedRow(node.feeds[i], depth + 1)]

RECURSIVE add_tree_node(_, _, _, _)
RECURSIVE add_tree_nodes(_, _, _, _, _)
add_tree_node(node, depth, parent_collapsed, collapsed) ==
    LET is_collapsed       == node.full_path \in collapsed
        actually_collapsed == parent_collapsed \/ is_collapsed
    IN  <<HeaderRow(node, is_collapsed, depth)>> \o
        (IF actually_collapsed THEN <<>>
         ELSE [i \in 1..Len(node.feeds) |-> FeedRow(node.feeds[i], depth + 1)] \o
              add_tree_nodes(node.children, depth + 1, actually_collapsed, collapsed, 1))

add_tree_nodes(nodes, depth, parent_collapsed, collapsed, i) ==
    IF i > Len(nodes) THEN <<>>
    ELSE add_tree_node(nodes[i], depth, parent_collapsed, collapsed) \o
         add_tree_nodes(nodes, depth, parent_collapsed, collapsed, i + 1)

\* a flattener that puts the standalone feeds behind the groups
FlattenFeeds_GroupsFirst(fs, collapsed, empties) ==
    LET total_unread == SumSeq([i \in 1..Len(fs) |-> fs[i].unread_count])
        standalone   == FilterIdx(fs, {i \in 1..Len(fs) : fs[i].group_title = <<>>}, 1)
        grouped      == FilterIdx(fs, {i \in 1..Len(fs) : fs[i].group_title # <<>>}, 1)
    IN  <<AllRow(total_unread)>> \o
        add_tree_nodes(build_group_tree(grouped, empties), 0, FALSE, collapsed, 1) \o
        [i \in 1..Len(standalone) |-> FeedRow(standalone[i], 0)]

\* the rows pushed by build_feed_list_items
FlattenFeeds(fs, collapsed, empties) ==
    LET total_unread == SumSeq([i \in 1..Len(fs) |-> fs[i].unread_count])
        standalone   == FilterIdx(fs, {i \in 1..Len(fs) : fs[i].group_title = <<>>}, 1)
        grouped      == FilterIdx(fs, {i \in 1..Len(fs) : fs[i].group_title # <<>>}, 1)
    IN  <<AllRow(total_unread)>> \o
        [i \in 1..Len(standalone) |-> FeedRow(standalone[i], 0)] \o
        add_tree_nodes(build_group_tree(grouped, empties), 0, FALSE, collapsed, 1)

\* Vec::get(idx) on a 0-based index; FALSE-kind row when out of range
RowAt(items, idx) ==
    IF idx >= 0 /\ idx < Len(items) THEN items[idx + 1]
    ELSE [kind |-> "None", full_path |-> <<>>, collapsed |-> FALSE,
          unread_count |-> 0, depth |-> 0, id |-> None, group_title |-> <<>>]

\* iter().position(p): 0-based index of the first row in hits, None if there is none
Position(hits) == IF hits = {} THEN None ELSE Min(hits) - 1

\* a reconciler that keeps the numeric index only
RestoreSelection_ByIndex(old_items, old_selection, new_items) ==
    IF new_items = <<>> THEN None
    ELSE LET o == IF old_selection = None THEN 0 ELSE old_selection
         IN  IF o < Len(new_items) - 1 THEN o ELSE Len(new_items) - 1

\* a reconciler that looks feeds up by id but group headers by index only
RestoreSelection_FeedOnly(old_items, old_selection, new_items) ==
    LET old      == RowAt(old_items, old_selection)
        feed_pos == Position({i \in 1..Len(new_items) :
                        new_items[i].kind = "Feed" /\ new_items[i].id = old.id})
    IN  IF old.kind = "All" THEN 0
        ELSE IF old.kind = "Feed" /\ feed_pos # None THEN feed_pos
        ELSE IF new_items = <<>> THEN None
        ELSE LET o == IF old_selection = None THEN 0 ELSE old_selection
             IN  IF o < Len(new_items) - 1 THEN o ELSE Len(new_items) - 1

\* a reconciler that keeps the old index of a vanished item as it is
RestoreSelection_Unclamped(old_items, old_selection, new_items) ==
    LET old      == RowAt(old_items, old_selection)
        feed_pos == Position({i \in 1..Len(new_items) :
                        new_items[i].kind = "Feed" /\ new_items[i].id = old.id})
        grp_pos  == Position({i \in 1..Len(new_items) :
                        new_items[i].kind = "GroupHeader"
                        /\ new_items[i].full_path = old.full_path})
    IN  IF old.kind = "All" THEN 0
        ELSE IF old.kind = "Feed" /\ feed_pos # None THEN feed_pos
        ELSE IF old.kind = "GroupHeader" /\ grp_pos # None THEN grp_pos
        ELSE old_selection

\* the cursor-restoring half of build_feed_list_items
RestoreSelection(old_items, old_selection, new_items) ==
    LET old      == RowAt(old_items, old_selection)
        feed_pos == Position({i \in 1..Len(new_items) :
                        new_items[i].kind = "Feed" /\ new_items[i].id = old.id})
        grp_pos  == Position({i \in 1..Len(new_items) :
                        new_items[i].kind = "GroupHeader"
                        /\ new_items[i].full_path = old.full_path})
    IN  IF old.kind = "All" THEN 0
        ELSE IF old.kind = "Feed" /\ feed_pos # None THEN feed_pos
        ELSE IF old.kind = "GroupHeader" /\ grp_pos # None THEN grp_pos
        ELSE IF new_items = <<>> THEN None
        ELSE LET o == IF old_selection = None THEN 0 ELSE old_selection
             IN  IF o < Len(new_items) - 1 THEN o ELSE Len(new_items) - 1

\* build_feed_list_items: the rebuilt rows and the reconciled cursor
build_feed_list_items(fs, old_items, old_selection, collapsed, empties) ==
    LET new_items == FlattenFeeds(fs, collapsed, empties)
    IN  [items |-> new_items,
         sel   |-> RestoreSelection(old_items, old_selection, new_items)]

\* the wrap-around index arithmetic of move_feed_selection / move_article_selection
MoveIdx(current, delta, len) ==
    IF delta >= 0 THEN (current + delta) % len
    ELSE LET offset == (0 - delta) % len
         IN  IF offset <= current THEN current - offset
             ELSE len - (offset - current)

SelOrZero(sel) == IF sel = None THEN 0 ELSE sel

\* the distance of a half-page move (ScrollHalfPageUp / ScrollHalfPageDown)
HalfPage == 10

\* the count typed before j / k (Action::Digit; none typed counts as 1) is at
\* most MaxCount
MaxCount == 2

\* the distances of the cursor moves: k / j with a count, and the half-page keys
Deltas == ((0 - MaxCount)..MaxCount) \cup {0 - HalfPage, HalfPage}

(***************************************************************************)
(* Feed-list state changes, shared by every specification                  *)
(***************************************************************************)
Last(ev, id, aux, applied) ==
    [ev |-> ev, id |-> id, aux |-> aux, applied |-> applied, origin |-> "none",
     path |-> <<>>, loads |-> 0, item |-> NoItem]

\* self.feeds = feeds; self.build_feed_list_items()
ApplyFeeds(fs) ==
    LET b == build_feed_list_items(fs, feed_list_items, feeds_state,
                                   collapsed_groups, empty_groups)
    IN  /\ feeds' = fs
        /\ feed_list_items' = b.items
        /\ feeds_state' = b.sel
        /\ UNCHANGED <<collapsed_groups, empty_groups>>

\* collapsed_groups = c; self.build_feed_list_items()
ApplyCollapsed(c) ==
    LET b == build_feed_list_items(feeds, feed_list_items, feeds_state, c, empty_groups)
    IN  /\ collapsed_groups' = c
        /\ feed_list_items' = b.items
        /\ feeds_state' = b.sel
        /\ UNCHANGED <<feeds, empty_groups>>

toggle_collapse(group_title) ==
    ApplyCollapsed(IF group_title \in collapsed_groups
                   THEN collapsed_groups \ {group_title}
                   ELSE collapsed_groups \cup {group_title})

expand_all_groups == ApplyCollapsed({})

\* every feed's group_title, the empty one of standalone feeds included
FeedGroupTitles == {feeds[i].group_title : i \in 1..Len(feeds)}

collapse_all_groups == ApplyCollapsed(FeedGroupTitles)

toggle_all_groups ==
    ApplyCollapsed(IF collapsed_groups = {} THEN FeedGroupTitles ELSE {})

SetCursor(idx) ==
    /\ feeds_state' = idx
    /\ UNCHANGED <<feeds, feed_list_items, collapsed_groups, empty_groups>>

(***************************************************************************)
(* RebuildSpec: the feed list alone.  The feed records of a FeedsLoaded    *)
(* result are drawn from every list the store can return for a bounded set *)
(* of feeds; the article side of the handlers is left out (it neither      *)
(* reads nor writes the feed-list fields after the rebuild).               *)
(***************************************************************************)
MaxFeeds == 2

FeedIds == 1..MaxFeeds

\* the group a feed can be filed under: feed 1 is standalone or in "a", feed 2
\* is in "a", in (after a move or a rename) "b" or in the subgroup "a > b",
\* every further feed in "a > b"
GroupChoices(id) ==
    IF id = 1 THEN {<<>>, <<1>>}
    ELSE IF id = 2 THEN {<<1>>, <<2>>, <<1, SEP, 2>>}
    ELSE {<<1, SEP, 2>>}

UnreadCounts == {0, 1}

\* the empty groups of the configuration: none, or "a > b"
EmptyGroupChoices == {<<>>, <<<<1, SEP, 2>>>>}

Feed(id, group_title, unread_count) ==
    [id |-> id, group_title |-> group_title, unread_count |-> unread_count]

\* ORDER BY feeds.group_title, feeds.title (titles ordered as the ids)
FeedLess(f, g) ==
    \/ StrLess(f.group_title, g.group_title)
    \/ f.group_title = g.group_title /\ f.id < g.id

RECURSIVE SortFeeds(_)
SortFeeds(S) ==
    IF S = {} THEN <<>>
    ELSE LET m == CHOOSE x \in S : \A y \in S \ {x} : FeedLess(x, y)
         IN  <<m>> \o SortFeeds(S \ {m})

\* every result get_all_feeds can return for feeds with ids in FeedIds
FeedLists ==
    UNION {{SortFeeds({Feed(i, g[i][1], g[i][2]) : i \in ids}) :
               g \in {h \in [ids -> (UNION {GroupChoices(i) : i \in ids}) \X UnreadCounts] :
                         \A i \in ids : h[i][1] \in GroupChoices(i)}} :
           ids \in SUBSET FeedIds}

FeedIdsOf(fs) == {fs[i].id : i \in 1..Len(fs)}

RebuildInit ==
    /\ feeds = <<>>
    /\ feed_list_items = <<AllRow(0)>>
    /\ feeds_state = 0
    /\ collapsed_groups = {}
    /\ empty_groups \in EmptyGroupChoices
    /\ articles = <<>>
    /\ articles_state = None
    /\ selected_article_id = None
    /\ article_content = EmptyContent
    /\ article_content_lines = 0
    /\ article_scroll = 0
    /\ active_pane = "Feeds"
    /\ is_refreshing = FALSE
    /\ pending_refreshes = 0
    /\ skip_articles_reload_after_feeds_load = FALSE
    /\ refresh_on_startup_pending = FALSE
    /\ store = <<>>
    /\ tasks = EmptyBag
    /\ actions_used = 0
    /\ stale = FALSE
    /\ config = InitialConfig
    /\ clipboard = NoClipboard
    /\ status_message = "none"
    /\ cut_history = NoCut
    /\ last = Last("Init", None, None, FALSE)

\* the history of a FeedsLoaded step: the selected feed when the result still
\* holds it in the same group, and the index the cursor had
FeedsLoadedLast(fs) ==
    LET old  == RowAt(feed_list_items, feeds_state)
        kept == /\ old.kind = "Feed"
                /\ \E i \in 1..Len(fs) : fs[i].id = old.id
                                          /\ fs[i].group_title = old.group_title
    IN  IF kept THEN Last("FeedsLoaded", old.id, feeds_state, TRUE)
        ELSE IF old.kind = "GroupHeader"
             THEN [Last("FeedsLoaded", None, feeds_state, FALSE)
                      EXCEPT !.path = old.full_path]
        ELSE Last("FeedsLoaded", None, None, FALSE)

\* the history of a collapse change: the path of the header the cursor was on
\* and the index the cursor had
CollapseLast ==
    LET old == RowAt(feed_list_items, feeds_state)
    IN  [Last("Collapse", None, feeds_state, FALSE) EXCEPT !.path = old.full_path]

\* DbResult::FeedsLoaded(fs): lines 455-456
FlFeedsLoaded(fs) ==
    /\ ApplyFeeds(fs)
    /\ UNCHANGED configVars
    /\ last' = FeedsLoadedLast(fs)
    /\ UNCHANGED routerVars

FlMove(delta) ==
    /\ feed_list_items # <<>>
    /\ SetCursor(MoveIdx(SelOrZero(feeds_state), delta, Len(feed_list_items)))
    /\ UNCHANGED configVars
    /\ last' = Last("Move", None, None, FALSE)
    /\ UNCHANGED routerVars

FlJumpToTop ==
    /\ feed_list_items # <<>>
    /\ SetCursor(0)
    /\ UNCHANGED configVars
    /\ last' = Last("Move", None, None, FALSE)
    /\ UNCHANGED routerVars

FlJumpToBottom ==
    /\ Len(feed_list_items) > 1
    /\ SetCursor(Len(feed_list_items) - 1)
    /\ UNCHANGED configVars
    /\ last' = Last("Move", None, None, FALSE)
    /\ UNCHANGED routerVars

\* Select on a group header
FlSelect ==
    /\ RowAt(feed_list_items, feeds_state).kind = "GroupHeader"
    /\ toggle_collapse(RowAt(feed_list_items, feeds_state).full_path)
    /\ UNCHANGED configVars
    /\ last' = CollapseLast
    /\ UNCHANGED routerVars

FlExpandAll ==
    /\ expand_all_groups
    /\ UNCHANGED configVars
    /\ last' = CollapseLast
    /\ UNCHANGED routerVars

FlCollapseAll ==
    /\ collapse_all_groups
    /\ UNCHANGED configVars
    /\ last' = CollapseLast
    /\ UNCHANGED routerVars

FlToggleAll ==
    /\ toggle_all_groups
    /\ UNCHANGED configVars
    /\ last' = CollapseLast
    /\ UNCHANGED routerVars

RebuildNext ==
    \/ \E fs \in FeedLists : FlFeedsLoaded(fs)
    \/ \E d \in Deltas : FlMove(d)
    \/ FlJumpToTop
    \/ FlJumpToBottom
    \/ FlSelect
    \/ FlExpandAll
    \/ FlCollapseAll
    \/ FlToggleAll

RebuildSpec == RebuildInit /\ [][RebuildNext]_vars

StoreFeedRows ==
    <<[id |-> 1, group_title |-> <<1>>], [id |-> 2, group_title |-> <<1, SEP, 2>>]>>

\* articles.feed_id by article id; article 3 is published after the start and
\* reaches the store with the first successful fetch of feed 1
ArticleFeed == <<1, 2, 1>>

ArticleIds == 1..Len(ArticleFeed)

InitialStore == [a \in ArticleIds |-> IF a = 3 THEN "absent" ELSE "unread"]

Article(a, st) == [id |-> a, feed_id |-> ArticleFeed[a], is_read |-> st[a] = "read"]

\* SELECT ... ORDER BY published DESC: the newest (highest id) first
RECURSIVE ArticlesDesc(_, _, _)
ArticlesDesc(st, ids, a) ==
    IF a < 1 THEN <<>>
    ELSE (IF a \in ids /\ st[a] # "absent" THEN <<Article(a, st)>> ELSE <<>>)
         \o ArticlesDesc(st, ids, a - 1)

get_articles_for_feed(st, feed_id) ==
    ArticlesDesc(st, {a \in ArticleIds : ArticleFeed[a] = feed_id}, Len(ArticleFeed))

get_articles_for_group(st, group_title) ==
    ArticlesDesc(st, {a \in ArticleIds :
                        \E i \in 1..Len(StoreFeedRows) :
                            /\ StoreFeedRows[i].id = ArticleFeed[a]
                            /\ StoreFeedRows[i].group_title = group_title},
                 Len(ArticleFeed))

get_all_articles(st) == ArticlesDesc(st, ArticleIds, Len(ArticleFeed))

\* get_all_feeds: every row with its count of unread articles
get_all_feeds(st) ==
    [i \in 1..Len(StoreFeedRows) |->
        Feed(StoreFeedRows[i].id, StoreFeedRows[i].group_title,
             Cardinality({a \in ArticleIds : ArticleFeed[a] = StoreFeedRows[i].id
                                             /\ st[a] = "unread"}))]

\* UPDATE articles SET is_read = NOT is_read WHERE id = ?
toggle_read(st, a) ==
    [st EXCEPT ![a] = IF @ = "unread" THEN "read" ELSE IF @ = "read" THEN "unread" ELSE @]

\* UPDATE articles SET is_read = 1 WHERE feed_id = ?   (every feed when feed_id is None)
mark_all_read(st, feed_id) ==
    [a \in ArticleIds |->
        IF st[a] = "unread" /\ (feed_id = None \/ ArticleFeed[a] = feed_id)
        THEN "read" ELSE st[a]]

\* INSERT OR IGNORE: the fetched articles that are not yet stored arrive unread
upsert_articles(st, ids) ==
    [a \in ArticleIds |-> IF a \in ids /\ st[a] = "absent" THEN "unread" ELSE st[a]]

(***************************************************************************)
(* Background tasks.  A task is started by the event loop ("run"), runs    *)
(* its store operations one at a time at any later moment, and then posts  *)
(* its result ("done"); posted results of different tasks are received in  *)
(* any order, since every task sends on its own clone of the channel.      *)
(***************************************************************************)
Task(kind, st, id, path, origin) ==
    [kind |-> kind, st |-> st, id |-> id, path |-> path, origin |-> origin,
     arts |-> <<>>, fds |-> <<>>, val |-> FALSE]

start_reload_feeds(origin)         == Task("GetFeeds", "run", None, <<>>, origin)
start_load_articles_for_feed(id)   == Task("LoadFeed", "run", id, <<>>, "load")
start_load_articles_for_group(p)   == Task("LoadGroup", "run", None, p, "load")
start_load_all_articles            == Task("LoadAll", "run", None, <<>>, "load")
start_toggle_read(article_id)      == Task("ToggleRead", "run", article_id, <<>>, "toggle")
start_mark_all_read(feed_id)       == Task("MarkRead", "run", feed_id, <<>>, "mark")
start_mark_all_read_all            == Task("MarkRead", "run", None, <<>>, "mark")
\* feed::refresh_one: the fetch posts its FeedUpdateResult when it completes
refresh_one(feed_id)               == Task("Fetch", "done", feed_id, <<>>, "fetch")
\* the spawn_blocking of start_render_article_content
RenderTask(article_id)             == Task("Render", "done", article_id, <<>>, "render")
\* the task spawned by handle_feed_update; val: the fetch brought articles
FeedUpdateTask(feed_id, has_articles) ==
    [Task("FeedUpdate", "run", feed_id, <<>>, "fetch") EXCEPT !.val = has_articles]

RECURSIVE BagOfSeq(_)
BagOfSeq(s) == IF s = <<>> THEN EmptyBag ELSE SetToBag({Head(s)}) (+) BagOfSeq(Tail(s))

RECURSIVE BagSum(_, _)
BagSum(B, S) ==
    IF S = {} THEN 0
    ELSE LET x == CHOOSE y \in S : TRUE IN B[x] + BagSum(B, S \ {x})

IsFeedsResult(t) == t.st = "done" /\ t.kind \in {"GetFeeds", "FeedUpdate"}

\* history: the feed snapshots read before a change of the unread counts are outdated
Outdate(B) ==
    LET f(t) == IF IsFeedsResult(t) THEN [t EXCEPT !.val = FALSE] ELSE t
    IN  [y \in {f(t) : t \in DOMAIN B} |-> BagSum(B, {t \in DOMAIN B : f(t) = y})]

Replace(B, t, u) == (B (-) SetToBag({t})) (+) SetToBag({u})

\* one store operation of a running task
DbStep(t) ==
    /\ BagIn(t, tasks)
    /\ t.st \in {"run", "read"}
    /\ \/ /\ t.kind = "GetFeeds"
          /\ tasks' = Replace(tasks, t, [t EXCEPT !.st = "done", !.fds = get_all_feeds(store),
                                                  !.val = TRUE])
          /\ UNCHANGED <<store, stale>>
       \/ /\ t.kind = "LoadFeed"
          /\ tasks' = Replace(tasks, t, [t EXCEPT !.st = "done",
                                                  !.arts = get_articles_for_feed(store, t.id)])
          /\ UNCHANGED <<store, stale>>
       \/ /\ t.kind = "LoadGroup"
          /\ tasks' = Replace(tasks, t, [t EXCEPT !.st = "done",
                                                  !.arts = get_articles_for_group(store, t.path)])
          /\ UNCHANGED <<store, stale>>
       \/ /\ t.kind = "LoadAll"
          /\ tasks' = Replace(tasks, t, [t EXCEPT !.st = "done",
                                                  !.arts = get_all_articles(store)])
          /\ UNCHANGED <<store, stale>>
       \/ /\ t.kind = "ToggleRead"
          /\ store' = toggle_read(store, t.id)
          /\ tasks' = Replace(Outdate(tasks), t,
                              [t EXCEPT !.st = "done", !.val = store'[t.id] = "read"])
          /\ stale' = TRUE
       \/ /\ t.kind = "MarkRead"
          /\ store' = mark_all_read(store, t.id)
          /\ tasks' = Replace(IF store' # store THEN Outdate(tasks) ELSE tasks, t,
                              [t EXCEPT !.st = "done"])
          /\ stale' = (stale \/ store' # store)
       \/ /\ t.kind = "FeedUpdate" /\ t.st = "run"
          /\ store' = upsert_articles(store, IF t.val THEN {a \in ArticleIds : ArticleFeed[a] = t.id}
                                                       ELSE {})
          /\ tasks' = Replace(IF store' # store THEN Outdate(tasks) ELSE tasks, t,
                              [t EXCEPT !.st = "read", !.val = FALSE])
          /\ stale' = (stale \/ store' # store)
       \/ /\ t.kind = "FeedUpdate" /\ t.st = "read"
          /\ tasks' = Replace(tasks, t, [t EXCEPT !.st = "done", !.fds = get_all_feeds(store),
                                                  !.val = TRUE])
          /\ UNCHANGED <<store, stale>>
    /\ UNCHANGED configVars
    /\ last' = Last("Db", None, None, FALSE)
    /\ UNCHANGED <<feedListVars, articles, articles_state, selected_article_id,
                   article_content, article_content_lines, article_scroll, active_pane,
                   is_refreshing, pending_refreshes, skip_articles_reload_after_feeds_load,
                   refresh_on_startup_pending, actions_used>>

(***************************************************************************)
(* Async result router: handle_db_result, handle_feed_update,              *)
(* handle_render_result                                                    *)
(***************************************************************************)
articleVars == <<articles, articles_state, selected_article_id>>
viewVars    == <<article_content, article_content_lines, article_scroll>>
refreshVars == <<is_refreshing, pending_refreshes>>

\* the lines of a rendered article: title, blank, separator, blank (empty body)
RenderedLines == 4

Consume(t, spawned) == tasks' = (tasks (-) SetToBag({t})) (+) BagOfSeq(spawned)

Selected == RowAt(feed_list_items, feeds_state)

\* self.selected_feed().map(|f| f.id) == Some(feed_id)
StillViewingFeed_Always(feed_id) == TRUE

StillViewingFeed(feed_id) == Selected.kind = "Feed" /\ Selected.id = feed_id

StillViewingGroup_AnyHeader(group_title) == Selected.kind = "GroupHeader"

StillViewingGroup(group_title) ==
    Selected.kind = "GroupHeader" /\ Selected.full_path = group_title

StillViewingAll == Selected.kind = "All"

\* load_articles_for_selection_at on the given rows
LoadFor(items, idx) ==
    LET row == RowAt(items, idx)
    IN  IF row.kind = "All" THEN <<start_load_all_articles>>
        ELSE IF row.kind = "GroupHeader" THEN <<start_load_articles_for_group(row.full_path)>>
        ELSE IF row.kind = "Feed" THEN <<start_load_articles_for_feed(row.id)>>
        ELSE <<>>

\* self.articles_state.selected().and_then(|idx| self.articles.get(idx)).map(|a| a.id)
SelectedArticleId(arts, sel) ==
    IF sel # None /\ sel < Len(arts) THEN arts[sel + 1].id ELSE None

\* prev_selected_id.and_then(|id| self.articles.iter().position(|a| a.id == id))
RestoredIdx_Front(prev, arts) ==
    IF prev = None \/ ~(\E i \in 1..Len(arts) : arts[i].id = prev) THEN None ELSE 0

RestoredIdx(prev, arts) ==
    IF prev = None THEN None
    ELSE Position({i \in 1..Len(arts) : arts[i].id = prev})

\* if !article.is_read { self.start_toggle_read(article.id) }
MarkReadOnSelect_Always(article) == <<start_toggle_read(article.id)>>

MarkReadOnSelect(article) ==
    IF ~article.is_read THEN <<start_toggle_read(article.id)>> ELSE <<>>

\* start_render_article_content for the given list and cursor: the task it spawns
RenderFor(arts, sel) ==
    IF sel # None /\ sel < Len(arts) THEN <<RenderTask(arts[sel + 1].id)>> ELSE <<>>

\* a reconciliation that leaves the cursor alone when the new list is empty
ReconcileArticles_KeepCursor(arts) ==
    LET prev         == SelectedArticleId(articles, articles_state)
        restored_idx == RestoredIdx(prev, arts)
    IN  IF arts = <<>> THEN
            [sel |-> articles_state, sel_id |-> selected_article_id,
             scroll |-> article_scroll, render |-> FALSE, spawned |-> <<>>, branch |-> 0]
        ELSE IF restored_idx # None THEN
            [sel |-> restored_idx, sel_id |-> prev, scroll |-> 0,
             render |-> TRUE, spawned |-> RenderFor(arts, restored_idx), branch |-> 1]
        ELSE
            [sel |-> 0, sel_id |-> arts[1].id, scroll |-> 0, render |-> TRUE,
             spawned |-> MarkReadOnSelect(arts[1]) \o RenderFor(arts, 0), branch |-> 2]

\* the body shared by ArticlesLoaded, GroupArticlesLoaded and AllArticlesLoaded
\* once the relevance check has passed; branch: 0 empty, 1 restored, 2 first selected
ReconcileArticles(arts) ==
    LET prev         == SelectedArticleId(articles, articles_state)
        restored_idx == RestoredIdx(prev, arts)
    IN  IF arts = <<>> THEN
            [sel |-> None, sel_id |-> None, scroll |-> article_scroll,
             render |-> FALSE, spawned |-> <<>>, branch |-> 0]
        ELSE IF restored_idx # None THEN
            [sel |-> restored_idx, sel_id |-> prev, scroll |-> 0,
             render |-> TRUE, spawned |-> RenderFor(arts, restored_idx), branch |-> 1]
        ELSE IF prev = None \/ prev # arts[1].id THEN
            [sel |-> 0, sel_id |-> arts[1].id, scroll |-> 0, render |-> TRUE,
             spawned |-> MarkReadOnSelect(arts[1]) \o RenderFor(arts, 0), branch |-> 2]
        ELSE
            [sel |-> 0, sel_id |-> selected_article_id, scroll |-> article_scroll,
             render |-> FALSE, spawned |-> <<>>, branch |-> 3]

ApplyArticles(t, ev) ==
    LET r == ReconcileArticles(t.arts)
    IN  /\ articles' = t.arts
        /\ articles_state' = r.sel
        /\ selected_article_id' = r.sel_id
        /\ article_scroll' = r.scroll
        /\ article_content' = IF r.render THEN EmptyContent ELSE article_content
        /\ article_content_lines' = IF r.render THEN 0 ELSE article_content_lines
        /\ Consume(t, r.spawned)
        /\ UNCHANGED configVars
        /\ last' = [Last(ev, t.id, r.branch, TRUE) EXCEPT !.path = t.path]

DiscardArticles(t, ev) ==
    /\ UNCHANGED <<articleVars, viewVars>>
    /\ Consume(t, <<>>)
    /\ UNCHANGED configVars
    /\ last' = [Last(ev, t.id, None, FALSE) EXCEPT !.path = t.path]

\* start_refresh_all: nothing when there are no feeds
StartRefreshAll(fs) ==
    [pending    |-> IF fs = <<>> THEN pending_refreshes ELSE Len(fs),
     refreshing |-> IF fs = <<>> THEN is_refreshing ELSE TRUE,
     spawned    |-> [i \in 1..Len(fs) |-> refresh_one(fs[i].id)]]

\* if self.skip_articles_reload_after_feeds_load { clear it } else { load }
ReloadAfterFeeds(items, idx) ==
    IF skip_articles_reload_after_feeds_load THEN <<>> ELSE LoadFor(items, idx)

HandleFeedsLoaded(t) ==
    LET b  == build_feed_list_items(t.fds, feed_list_items, feeds_state,
                                    collapsed_groups, empty_groups)
        ra == IF refresh_on_startup_pending THEN StartRefreshAll(t.fds)
              ELSE [pending |-> pending_refreshes, refreshing |-> is_refreshing,
                    spawned |-> <<>>]
    IN  /\ IsFeedsResult(t)
        /\ ApplyFeeds(t.fds)
        /\ refresh_on_startup_pending' = FALSE
        /\ pending_refreshes' = ra.pending
        /\ is_refreshing' = ra.refreshing
        /\ skip_articles_reload_after_feeds_load' = FALSE
        /\ Consume(t, ra.spawned \o ReloadAfterFeeds(b.items, b.sel))
        /\ stale' = (stale /\ ~t.val)
        /\ UNCHANGED configVars
        /\ last' = [FeedsLoadedLast(t.fds) EXCEPT
                        !.origin = t.origin,
                        !.loads = Len(ReloadAfterFeeds(b.items, b.sel))]
        /\ UNCHANGED <<articleVars, viewVars, active_pane, store, actions_used>>

HandleArticlesLoaded(t) ==
    /\ t.kind = "LoadFeed" /\ t.st = "done"
    /\ IF StillViewingFeed(t.id) THEN ApplyArticles(t, "ArticlesLoaded")
       ELSE DiscardArticles(t, "ArticlesLoaded")
    /\ UNCHANGED <<feedListVars, active_pane, refreshVars,
                   skip_articles_reload_after_feeds_load, refresh_on_startup_pending,
                   store, actions_used, stale>>

HandleGroupArticlesLoaded(t) ==
    /\ t.kind = "LoadGroup" /\ t.st = "done"
    /\ IF StillViewingGroup(t.path) THEN ApplyArticles(t, "GroupArticlesLoaded")
       ELSE DiscardArticles(t, "GroupArticlesLoaded")
    /\ UNCHANGED <<feedListVars, active_pane, refreshVars,
                   skip_articles_reload_after_feeds_load, refresh_on_startup_pending,
                   store, actions_used, stale>>

HandleAllArticlesLoaded(t) ==
    /\ t.kind = "LoadAll" /\ t.st = "done"
    /\ IF StillViewingAll THEN ApplyArticles(t, "AllArticlesLoaded")
       ELSE DiscardArticles(t, "AllArticlesLoaded")
    /\ UNCHANGED <<feedListVars, active_pane, refreshVars,
                   skip_articles_reload_after_feeds_load, refresh_on_startup_pending,
                   store, actions_used, stale>>

\* the reload started by ReadToggled
ReadToggledReload_None == <<>>

ReadToggledReload == <<start_reload_feeds("toggle")>>

\* self.articles.iter_mut().find(|a| a.id == article_id): article.is_read = new_value
SetRead(arts, article_id, new_value) ==
    [i \in 1..Len(arts) |->
        IF arts[i].id = article_id THEN [arts[i] EXCEPT !.is_read = new_value]
        ELSE arts[i]]

HandleReadToggled(t) ==
    /\ t.kind = "ToggleRead" /\ t.st = "done"
    /\ articles' = SetRead(articles, t.id, t.val)
    /\ skip_articles_reload_after_feeds_load' = TRUE
    /\ Consume(t, ReadToggledReload)
    /\ UNCHANGED configVars
    /\ last' = Last("ReadToggled", t.id, None, t.val)
    /\ UNCHANGED <<feedListVars, articles_state, selected_article_id, viewVars,
                   active_pane, refreshVars, refresh_on_startup_pending, store,
                   actions_used, stale>>

\* the article reload of MarkedRead { feed_id }
MarkedReadLoads(feed_id) ==
    IF feed_id # None
    THEN (IF StillViewingFeed(feed_id) THEN <<start_load_articles_for_feed(feed_id)>>
          ELSE <<>>)
    ELSE <<start_load_all_articles>>

\* the feed reload of MarkedRead
MarkedReadReload == <<start_reload_feeds("mark")>>

HandleMarkedRead(t) ==
    /\ t.kind = "MarkRead" /\ t.st = "done"
    /\ Consume(t, MarkedReadLoads(t.id) \o MarkedReadReload)
    /\ UNCHANGED configVars
    /\ last' = [Last("MarkedRead", t.id, None, TRUE) EXCEPT
                    !.loads = Len(MarkedReadLoads(t.id))]
    /\ UNCHANGED <<feedListVars, articleVars, viewVars, active_pane, refreshVars,
                   skip_articles_reload_after_feeds_load, refresh_on_startup_pending,
                   store, actions_used, stale>>

handle_db_result(t) ==
    /\ BagIn(t, tasks)
    /\ \/ HandleFeedsLoaded(t)
       \/ HandleArticlesLoaded(t)
       \/ HandleGroupArticlesLoaded(t)
       \/ HandleAllArticlesLoaded(t)
       \/ HandleReadToggled(t)
       \/ HandleMarkedRead(t)

\* self.pending_refreshes.saturating_sub(1)
SaturatingDec(n) == IF n > 0 THEN n - 1 ELSE 0

\* a FeedUpdateResult arrives: with articles (ok) or with an error and none
handle_feed_update(t, ok) ==
    /\ BagIn(t, tasks)
    /\ t.kind = "Fetch"
    /\ Consume(t, <<FeedUpdateTask(t.id, ok)>>)
    /\ pending_refreshes' = SaturatingDec(pending_refreshes)
    /\ is_refreshing' = IF pending_refreshes' = 0 THEN FALSE ELSE is_refreshing
    /\ UNCHANGED configVars
    /\ last' = Last("FeedUpdate", t.id, None, ok)
    /\ UNCHANGED <<feedListVars, articleVars, viewVars, active_pane,
                   skip_articles_reload_after_feeds_load, refresh_on_startup_pending,
                   store, actions_used, stale>>

\* self.article_content_lines.saturating_sub(1)
MaxScroll(lines) == IF lines > 0 THEN lines - 1 ELSE 0

handle_render_result(t) ==
    /\ BagIn(t, tasks)
    /\ t.kind = "Render"
    /\ article_content' = t.id
    /\ article_content_lines' = RenderedLines
    /\ article_scroll' = IF article_scroll > 0 /\ article_scroll >= MaxScroll(RenderedLines)
                         THEN MaxScroll(RenderedLines) ELSE article_scroll
    /\ Consume(t, <<>>)
    /\ UNCHANGED configVars
    /\ last' = Last("Render", t.id, None, TRUE)
    /\ UNCHANGED <<feedListVars, articleVars, active_pane, refreshVars,
                   skip_articles_reload_after_feeds_load, refresh_on_startup_pending,
                   store, actions_used, stale>>

(***************************************************************************)
(* User actions (App::update), as action::handle_event maps the keys of    *)
(* each pane, and the periodic refresh tick of the main loop.  A key, a     *)
(* timer tick and a feed fetch are each one unit of work; a run holds at   *)
(* most MaxActions units, and the user and the timer act only while at     *)
(* most MaxPending background tasks are outstanding.                       *)
(***************************************************************************)
MaxActions == 2

MaxPending == 1

CanAct == actions_used < MaxActions /\ BagCardinality(tasks) <= MaxPending

Fetches(spawned) == Cardinality({i \in 1..Len(spawned) : spawned[i].kind = "Fetch"})

Units(spawned) == IF Fetches(spawned) > 1 THEN Fetches(spawned) ELSE 1

Issue(spawned) ==
    /\ actions_used + Units(spawned) <= MaxActions
    /\ tasks' = tasks (+) BagOfSeq(spawned)
    /\ actions_used' = actions_used + Units(spawned)
    /\ UNCHANGED configVars
    /\ last' = Last("User", None, None, FALSE)

\* changing the focused pane starts no background work and is not counted
Refocus ==
    /\ UNCHANGED <<tasks, actions_used>>
    /\ UNCHANGED configVars
    /\ last' = Last("User", None, None, FALSE)

Free == Issue(<<>>)

FocusNext ==
    /\ active_pane' = (IF active_pane = "Feeds" THEN "Articles"
                       ELSE IF active_pane = "Articles" THEN "ArticleView" ELSE "Feeds")
    /\ Refocus
    /\ UNCHANGED <<feedListVars, articleVars, viewVars, refreshVars,
                   skip_articles_reload_after_feeds_load, refresh_on_startup_pending,
                   store, stale>>

FocusPrev ==
    /\ active_pane' = (IF active_pane = "Feeds" THEN "ArticleView"
                       ELSE IF active_pane = "Articles" THEN "Feeds" ELSE "Articles")
    /\ Refocus
    /\ UNCHANGED <<feedListVars, articleVars, viewVars, refreshVars,
                   skip_articles_reload_after_feeds_load, refresh_on_startup_pending,
                   store, stale>>

\* MoveUp / MoveDown / ScrollHalfPage in the feeds pane: move_feed_selection
MoveFeed(delta) ==
    /\ active_pane = "Feeds" /\ CanAct
    /\ feed_list_items # <<>>
    /\ SetCursor(MoveIdx(SelOrZero(feeds_state), delta, Len(feed_list_items)))
    /\ Issue(LoadFor(feed_list_items, feeds_state'))
    /\ UNCHANGED <<articleVars, viewVars, active_pane, refreshVars,
                   skip_articles_reload_after_feeds_load, refresh_on_startup_pending,
                   store, stale>>

\* the cursor half of move_article_selection, JumpToTop and JumpToBottom in
\* the articles pane: select new_idx, mark it read when the selection changes
SelectArticleAt(new_idx, changed) ==
    /\ articles_state' = new_idx
    /\ selected_article_id' = articles[new_idx + 1].id
    /\ article_content' = EmptyContent
    /\ article_content_lines' = 0
    /\ Issue((IF changed THEN MarkReadOnSelect(articles[new_idx + 1]) ELSE <<>>)
             \o RenderFor(articles, new_idx))
    /\ UNCHANGED <<feedListVars, articles, article_scroll, active_pane, refreshVars,
                   skip_articles_reload_after_feeds_load, refresh_on_startup_pending,
                   store, stale>>

\* MoveUp / MoveDown / ScrollHalfPage in the articles pane: move_article_selection
MoveArticle(delta) ==
    /\ active_pane = "Articles" /\ CanAct
    /\ articles # <<>>
    /\ LET current == SelOrZero(articles_state)
           new_idx == MoveIdx(current, delta, Len(articles))
       IN  SelectArticleAt(new_idx, new_idx # current)

\* Select in the feeds pane: select_feed_item
SelectFeedItem ==
    /\ active_pane = "Feeds" /\ CanAct
    /\ Selected.kind \in {"All", "GroupHeader", "Feed"}
    /\ IF Selected.kind = "GroupHeader"
       THEN toggle_collapse(Selected.full_path) /\ UNCHANGED active_pane
       ELSE active_pane' = "Articles" /\ UNCHANGED feedListVars
    /\ Free
    /\ UNCHANGED <<articleVars, viewVars, refreshVars,
                   skip_articles_reload_after_feeds_load, refresh_on_startup_pending,
                   store, stale>>

\* Select in the articles pane: select_article
SelectArticle ==
    /\ active_pane = "Articles" /\ CanAct
    /\ SelectedArticleId(articles, articles_state) # None
    /\ active_pane' = "ArticleView"
    /\ Issue(MarkReadOnSelect(articles[articles_state + 1]))
    /\ UNCHANGED <<feedListVars, articleVars, viewVars, refreshVars,
                   skip_articles_reload_after_feeds_load, refresh_on_startup_pending,
                   store, stale>>

\* start_mark_all_read_for_group: the feeds filed directly under the group
GroupFeedIds(group_title) ==
    FilterIdx([i \in 1..Len(feeds) |-> feeds[i].id],
              {i \in 1..Len(feeds) : feeds[i].group_title = group_title}, 1)

IsPrefix(p, s) == Len(p) <= Len(s) /\ SubSeq(s, 1, Len(p)) = p

\* a selection by the bare prefix, without the separator
GroupFeedIdsRecursive_Prefix(group_path) ==
    FilterIdx([i \in 1..Len(feeds) |-> feeds[i].id],
              {i \in 1..Len(feeds) : IsPrefix(group_path, feeds[i].group_title)}, 1)

\* start_mark_all_read_for_group_recursive: also the feeds of nested groups
GroupFeedIdsRecursive(group_path) ==
    FilterIdx([i \in 1..Len(feeds) |-> feeds[i].id],
              {i \in 1..Len(feeds) :
                   \/ feeds[i].group_title = group_path
                   \/ IsPrefix(group_path \o <<SEP>>, feeds[i].group_title)}, 1)

MarkSelectedRead(ids) ==
    IF Selected.kind = "All" THEN <<start_mark_all_read_all>>
    ELSE IF Selected.kind = "GroupHeader"
         THEN [i \in 1..Len(ids) |-> start_mark_all_read(ids[i])]
    ELSE <<start_mark_all_read(Selected.id)>>

\* ToggleCollapse (Space) in the feeds pane marks the selection read
ToggleCollapse ==
    /\ active_pane = "Feeds" /\ CanAct
    /\ Selected.kind \in {"All", "GroupHeader", "Feed"}
    /\ Issue(MarkSelectedRead(GroupFeedIds(Selected.full_path)))
    /\ UNCHANGED <<feedListVars, articleVars, viewVars, active_pane, refreshVars,
                   skip_articles_reload_after_feeds_load, refresh_on_startup_pending,
                   store, stale>>

ToggleCollapseRecursive ==
    /\ active_pane = "Feeds" /\ CanAct
    /\ Selected.kind \in {"All", "GroupHeader", "Feed"}
    /\ Issue(MarkSelectedRead(GroupFeedIdsRecursive(Selected.full_path)))
    /\ UNCHANGED <<feedListVars, articleVars, viewVars, active_pane, refreshVars,
                   skip_articles_reload_after_feeds_load, refresh_on_startup_pending,
                   store, stale>>

ToggleRead ==
    /\ active_pane = "Articles" /\ CanAct
    /\ SelectedArticleId(articles, articles_state) # None
    /\ Issue(<<start_toggle_read(SelectedArticleId(articles, articles_state))>>)
    /\ UNCHANGED <<feedListVars, articleVars, viewVars, active_pane, refreshVars,
                   skip_articles_reload_after_feeds_load, refresh_on_startup_pending,
                   store, stale>>

MarkAllRead ==
    /\ active_pane = "Articles" /\ CanAct
    /\ Selected.kind \in {"All", "Feed"}
    /\ Issue(IF Selected.kind = "All" THEN <<start_mark_all_read_all>>
             ELSE <<start_mark_all_read(Selected.id)>>)
    /\ UNCHANGED <<feedListVars, articleVars, viewVars, active_pane, refreshVars,
                   skip_articles_reload_after_feeds_load, refresh_on_startup_pending,
                   store, stale>>

\* ScrollUp (1) / ScrollHalfPageUp (10) in the article view: saturating_sub
ScrollUp(n) ==
    /\ active_pane = "ArticleView" /\ CanAct
    /\ article_scroll' = (IF article_scroll > n THEN article_scroll - n ELSE 0)
    /\ Free
    /\ UNCHANGED <<feedListVars, articleVars, article_content, article_content_lines,
                   active_pane, refreshVars, skip_articles_reload_after_feeds_load,
                   refresh_on_startup_pending, store, stale>>

\* ScrollDown (1) / ScrollHalfPageDown (10): never past the last line
ScrollDown(n) ==
    /\ active_pane = "ArticleView" /\ CanAct
    /\ article_scroll' = (IF article_scroll + n < MaxScroll(article_content_lines)
                          THEN article_scroll + n ELSE MaxScroll(article_content_lines))
    /\ Free
    /\ UNCHANGED <<feedListVars, articleVars, article_content, article_content_lines,
                   active_pane, refreshVars, skip_articles_reload_after_feeds_load,
                   refresh_on_startup_pending, store, stale>>

\* start_refresh_all from the RefreshAll key, RefreshCurrent on "All" or the timer
RefreshAllStep ==
    /\ CanAct
    /\ feeds # <<>>
    /\ pending_refreshes' = StartRefreshAll(feeds).pending
    /\ is_refreshing' = StartRefreshAll(feeds).refreshing
    /\ Issue(StartRefreshAll(feeds).spawned)
    /\ UNCHANGED <<feedListVars, articleVars, viewVars, active_pane,
                   skip_articles_reload_after_feeds_load, refresh_on_startup_pending,
                   store, stale>>

RefreshAll == RefreshAllStep

\* main.rs: refresh_interval.tick() => app.start_refresh_all()
RefreshTick == RefreshAllStep

RefreshCurrent ==
    \/ StillViewingAll /\ RefreshAllStep
    \/ /\ Selected.kind = "Feed" /\ CanAct
       /\ pending_refreshes' = pending_refreshes + 1
       /\ is_refreshing' = TRUE
       /\ Issue(<<refresh_one(Selected.id)>>)
       /\ UNCHANGED <<feedListVars, articleVars, viewVars, active_pane,
                      skip_articles_reload_after_feeds_load, refresh_on_startup_pending,
                      store, stale>>

\* JumpToTop (to_last = FALSE) and JumpToBottom (to_last = TRUE)
Jump(to_last) ==
    \/ /\ active_pane = "Feeds" /\ CanAct
       /\ IF to_last THEN Len(feed_list_items) > 1 ELSE feed_list_items # <<>>
       /\ SetCursor(IF to_last THEN Len(feed_list_items) - 1 ELSE 0)
       /\ Issue(IF to_last THEN LoadFor(feed_list_items, feeds_state')
                ELSE <<start_load_all_articles>>)
       /\ UNCHANGED <<articleVars, viewVars, active_pane, refreshVars,
                      skip_articles_reload_after_feeds_load, refresh_on_startup_pending,
                      store, stale>>
    \/ /\ active_pane = "Articles" /\ CanAct
       /\ articles # <<>>
       /\ LET current == SelOrZero(articles_state)
              target  == IF to_last THEN Len(articles) - 1 ELSE 0
          IN  IF current # target THEN SelectArticleAt(target, TRUE)
              ELSE /\ article_content' = EmptyContent
                   /\ article_content_lines' = 0
                   /\ Issue(RenderFor(articles, articles_state))
                   /\ UNCHANGED <<feedListVars, articleVars, article_scroll, active_pane,
                                  refreshVars, skip_articles_reload_after_feeds_load,
                                  refresh_on_startup_pending, store, stale>>
    \/ /\ active_pane = "ArticleView" /\ CanAct
       /\ article_scroll' = (IF to_last THEN MaxScroll(article_content_lines) ELSE 0)
       /\ Free
       /\ UNCHANGED <<feedListVars, articleVars, article_content, article_content_lines,
                      active_pane, refreshVars, skip_articles_reload_after_feeds_load,
                      refresh_on_startup_pending, store, stale>>

JumpToTop == Jump(FALSE)

JumpToBottom == Jump(TRUE)

GroupsStep(rebuild) ==
    /\ active_pane = "Feeds" /\ CanAct
    /\ rebuild
    /\ Free
    /\ UNCHANGED <<articleVars, viewVars, active_pane, refreshVars,
                   skip_articles_reload_after_feeds_load, refresh_on_startup_pending,
                   store, stale>>

ExpandAllGroups == GroupsStep(expand_all_groups)

CollapseAllGroups == GroupsStep(collapse_all_groups)

ToggleAllGroups == GroupsStep(toggle_all_groups)

(***************************************************************************)
(* Spec: the event loop with its background tasks                          *)
(***************************************************************************)
\* App::new_with_receivers; refresh_on_start is the configuration's choice, and
\* the fetches of the startup refresh are counted as work from the start
Init ==
    /\ feeds = <<>>
    /\ feed_list_items = <<AllRow(0)>>
    /\ feeds_state = 0
    /\ collapsed_groups = {}
    /\ empty_groups = <<>>
    /\ articles = <<>>
    /\ articles_state = None
    /\ selected_article_id = None
    /\ article_content = EmptyContent
    /\ article_content_lines = 0
    /\ article_scroll = 0
    /\ active_pane = "Articles"
    /\ refresh_on_startup_pending \in BOOLEAN
    /\ is_refreshing = refresh_on_startup_pending
    /\ pending_refreshes = 0
    /\ skip_articles_reload_after_feeds_load = FALSE
    /\ store = InitialStore
    /\ tasks = SetToBag({start_reload_feeds("init")})
    /\ actions_used = (IF refresh_on_startup_pending THEN Len(StoreFeedRows) ELSE 0)
    /\ stale = FALSE
    /\ config = InitialConfig
    /\ clipboard = NoClipboard
    /\ status_message = "none"
    /\ cut_history = NoCut
    /\ last = Last("Init", None, None, FALSE)

TaskSet == BagToSet(tasks)

Next ==
    \/ \E t \in TaskSet : DbStep(t)
    \/ \E t \in TaskSet : handle_db_result(t)
    \/ \E t \in TaskSet, ok \in BOOLEAN : handle_feed_update(t, ok)
    \/ \E t \in TaskSet : handle_render_result(t)
    \/ FocusNext
    \/ FocusPrev
    \/ \E d \in Deltas : MoveFeed(d)
    \/ \E d \in Deltas : MoveArticle(d)
    \/ SelectFeedItem
    \/ SelectArticle
    \/ ToggleCollapse
    \/ ToggleCollapseRecursive
    \/ ToggleRead
    \/ MarkAllRead
    \/ \E n \in {1, HalfPage} : ScrollUp(n)
    \/ \E n \in {1, HalfPage} : ScrollDown(n)
    \/ RefreshAll
    \/ RefreshTick
    \/ RefreshCurrent
    \/ JumpToTop
    \/ JumpToBottom
    \/ ExpandAllGroups
    \/ CollapseAllGroups
    \/ ToggleAllGroups

Spec == Init /\ [][Next]_vars

(***************************************************************************)
(* Properties of the async result router                                   *)
(***************************************************************************)
\* C1: an ArticlesLoaded result for a feed that is not the selected Feed row is
\* discarded: the articles, the article cursor, selected_article_id and
\* article_scroll stay as they were and the handler starts no task.
StaleArticlesLoadedDiscarded ==
    [][LET row == RowAt(feed_list_items, feeds_state)
       IN  (last'.ev = "ArticlesLoaded" /\ ~(row.kind = "Feed" /\ row.id = last'.id))
           => /\ UNCHANGED <<articles, articles_state, selected_article_id, article_scroll>>
              /\ tasks' \sqsubseteq tasks]_vars

\* a feed's articles arrived while the cursor was on another feed, with a list shown
StaleArticlesLoadedWitness ==
    /\ last.ev = "ArticlesLoaded"
    /\ ~last.applied
    /\ RowAt(feed_list_items, feeds_state).kind = "Feed"
    /\ RowAt(feed_list_items, feeds_state).id # last.id
    /\ articles # <<>>

\* C2: a GroupArticlesLoaded result is applied only while the cursor is on the
\* group header with that full path, an AllArticlesLoaded result only while it is
\* on the All row; otherwise the articles and the article cursor are unchanged.
GroupAndAllResultsGuarded ==
    [][LET row      == RowAt(feed_list_items, feeds_state)
           relevant == IF last'.ev = "GroupArticlesLoaded"
                       THEN row.kind = "GroupHeader" /\ row.full_path = last'.path
                       ELSE row.kind = "All"
       IN  last'.ev \in {"GroupArticlesLoaded", "AllArticlesLoaded"}
           => /\ last'.applied => relevant
              /\ ~relevant => UNCHANGED <<articles, articles_state>>]_vars

\* a group's articles arrived while the cursor was on the header of another group
GroupAndAllResultsWitness ==
    /\ last.ev = "GroupArticlesLoaded"
    /\ ~last.applied
    /\ RowAt(feed_list_items, feeds_state).kind = "GroupHeader"
    /\ RowAt(feed_list_items, feeds_state).full_path # last.path

\* C3, as the specification states it: once every render task has posted its
\* result, the article view holds the rendering of the selected article.
RenderedSelectionShown ==
    (/\ ~(\E t \in TaskSet : t.kind = "Render")
     /\ SelectedArticleId(articles, articles_state) # None)
    => article_content = SelectedArticleId(articles, articles_state)

\* the copies of task t that the step adds to the outstanding tasks
StartedCopies(t) == CopiesIn(t, tasks') - CopiesIn(t, tasks)

IsArticleLoad(t) == t.kind \in {"LoadFeed", "LoadGroup", "LoadAll"}

\* C5, as the specification states it: a ReadToggled result sets the article's
\* flag and starts a feed reload, and the FeedsLoaded result of that reload
\* starts no article load, whatever was handled in between.
ReadToggleReloadSkipsArticles ==
    [][/\ last'.ev = "ReadToggled"
          => /\ \A i \in 1..Len(articles') :
                    articles'[i].id = last'.id => articles'[i].is_read = last'.applied
             /\ StartedCopies(start_reload_feeds("toggle")) = 1
       /\ (last'.ev = "FeedsLoaded" /\ last'.origin = "toggle")
          => \A t \in DOMAIN tasks' : IsArticleLoad(t) => StartedCopies(t) <= 0]_vars

\* C6, as the specification states it: a FeedsLoaded result that stems from a
\* fetch completion or a mark-all-read starts the article load of the selected row.
FetchAndMarkReloadsLoadArticles ==
    [][(last'.ev = "FeedsLoaded" /\ last'.origin \in {"fetch", "mark"})
       => \E t \in DOMAIN tasks' :
              /\ <<t>> = LoadFor(feed_list_items', feeds_state')
              /\ StartedCopies(t) = 1]_vars

\* C7, as the specification states it: a MarkedRead result starts the load of the
\* displayed article list and a feed reload, when the cursor is on the All row,
\* on the header of the marked feed's group, or on the marked feed.
MarkedReadReloadsDisplayedList ==
    [][LET row == RowAt(feed_list_items, feeds_state)
           shown == \/ row.kind = "All"
                    \/ /\ row.kind = "GroupHeader"
                       /\ \E i \in 1..Len(feeds) : /\ feeds[i].id = last'.id
                                                    /\ feeds[i].group_title = row.full_path
                    \/ row.kind = "Feed" /\ row.id = last'.id
       IN  (last'.ev = "MarkedRead" /\ shown)
           => /\ \E t \in DOMAIN tasks' :
                     /\ <<t>> = LoadFor(feed_list_items, feeds_state)
                     /\ StartedCopies(t) = 1
              /\ StartedCopies(start_reload_feeds("mark")) = 1]_vars

ArticleEvents == {"ArticlesLoaded", "GroupArticlesLoaded", "AllArticlesLoaded"}

HasArticle(arts, article_id) == \E i \in 1..Len(arts) : arts[i].id = article_id

\* an applied article result whose batch holds the previously selected article
RestoreCase ==
    /\ last'.ev \in ArticleEvents
    /\ last'.applied
    /\ SelectedArticleId(articles, articles_state) # None
    /\ HasArticle(articles', SelectedArticleId(articles, articles_state))

\* C9, as the code has it: the cursor is placed on the article with the same id
\* and selected_article_id keeps it, but the scroll position is not preserved:
\* article_scroll is reset to 0 and the article is rendered again.
RestoredSelectionRescrolled ==
    [][RestoreCase
       => /\ SelectedArticleId(articles', articles_state')
                = SelectedArticleId(articles, articles_state)
          /\ selected_article_id' = SelectedArticleId(articles, articles_state)
          /\ article_scroll' = 0
          /\ StartedCopies(RenderTask(selected_article_id')) = 1]_vars

\* the selection was restored at another index than the first
RestoredSelectionWitness ==
    /\ last.ev \in ArticleEvents
    /\ last.applied
    /\ last.aux = 1
    /\ articles_state > 0
    /\ SelectedArticleId(articles, articles_state) = selected_article_id

\* C9, as the specification states it: the cursor is placed on the article with
\* the same id and article_scroll is unchanged by the handler.
RestoredSelectionKeepsScroll ==
    [][RestoreCase
       => /\ SelectedArticleId(articles', articles_state')
                = SelectedArticleId(articles, articles_state)
          /\ article_scroll' = article_scroll]_vars

\* C10: an applied, non-empty batch without the previously selected article puts
\* the cursor on index 0, issues a read toggle for the first article exactly when
\* it is unread, and starts one render, for the article under the new cursor.
FirstArticleSelected ==
    [][(/\ last'.ev \in ArticleEvents
        /\ last'.applied
        /\ articles' # <<>>
        /\ ~HasArticle(articles', SelectedArticleId(articles, articles_state)))
       => /\ articles_state' = 0
          /\ StartedCopies(start_toggle_read(articles'[1].id))
                = (IF articles'[1].is_read THEN 0 ELSE 1)
          /\ \A t \in DOMAIN tasks' :
                 t.kind = "Render"
                 => StartedCopies(t)
                        = (IF t.id = SelectedArticleId(articles', articles_state')
                           THEN 1 ELSE 0)]_vars

\* a list replaced the one holding the selected article, and its first article
\* was already read
FirstArticleSelectedWitness ==
    /\ last.ev \in ArticleEvents
    /\ last.applied
    /\ last.aux = 2
    /\ articles_state = 0
    /\ articles[1].is_read

(***************************************************************************)
(* FairSpec: a session that stays in the articles pane.  The tokio runtime *)
(* runs every spawned task to its end and the select! of the main loop     *)
(* receives every message a task has posted, so a store operation or a     *)
(* result that stays possible is eventually taken.  For the FeedsLoaded    *)
(* handler the fairness condition is written out, with the state predicate *)
(* that says a feed result is waiting in place of ENABLED.                 *)
(***************************************************************************)
FairNext ==
    \/ \E t \in TaskSet : DbStep(t)
    \/ \E t \in TaskSet : handle_db_result(t)
    \/ \E t \in TaskSet, ok \in BOOLEAN : handle_feed_update(t, ok)
    \/ \E t \in TaskSet : handle_render_result(t)
    \/ \E d \in Deltas : MoveArticle(d)
    \/ ToggleRead
    \/ MarkAllRead
    \/ RefreshAll
    \/ RefreshTick

FeedsResultWaiting == \E t \in TaskSet : IsFeedsResult(t)

FairSpec ==
    /\ Init
    /\ [][FairNext]_vars
    /\ WF_vars(\E t \in TaskSet : DbStep(t))
    /\ WF_vars(\E t \in TaskSet : HandleReadToggled(t) \/ HandleMarkedRead(t))
    /\ ([]<>(~FeedsResultWaiting) \/ []<><<\E t \in TaskSet : HandleFeedsLoaded(t)>>_vars)

\* C8: once the store's read flags have changed, a FeedsLoaded result read after
\* the change is eventually handled.
UnreadCountsReloaded == stale ~> ~stale

\* a change of the read flags whose reload has not been handled yet
UnreadCountsReloadedWitness ==
    /\ stale
    /\ \E t \in TaskSet : t.kind \in {"ToggleRead", "MarkRead", "FeedUpdate"} /\ t.st # "run"

(***************************************************************************)
(* The refresh counter.  pending_refreshes and is_refreshing are written   *)
(* by start_refresh_all, by RefreshCurrent and by handle_feed_update only, *)
(* so this specification follows the fetch tasks and the feed list and     *)
(* leaves the store tasks of the handlers out.  At most MaxFetches fetches *)
(* are outstanding at a time.                                              *)
(***************************************************************************)
MaxFetches == 3

OutstandingFetches == BagCardinality(tasks)

RefreshInit ==
    /\ feeds = <<>>
    /\ feed_list_items = <<AllRow(0)>>
    /\ feeds_state = 0
    /\ collapsed_groups = {}
    /\ empty_groups = <<>>
    /\ articles = <<>>
    /\ articles_state = None
    /\ selected_article_id = None
    /\ article_content = EmptyContent
    /\ article_content_lines = 0
    /\ article_scroll = 0
    /\ active_pane = "Feeds"
    /\ is_refreshing = FALSE
    /\ pending_refreshes = 0
    /\ skip_articles_reload_after_feeds_load = FALSE
    /\ refresh_on_startup_pending \in BOOLEAN
    /\ store = <<>>
    /\ tasks = EmptyBag
    /\ actions_used = 0
    /\ stale = FALSE
    /\ config = InitialConfig
    /\ clipboard = NoClipboard
    /\ status_message = "none"
    /\ cut_history = NoCut
    /\ last = Last("Init", None, None, FALSE)

RefreshFrame ==
    UNCHANGED <<articleVars, viewVars, active_pane, store, actions_used, stale,
                skip_articles_reload_after_feeds_load>>

\* DbResult::FeedsLoaded(fs): the list is rebuilt and the startup refresh starts
RfFeedsLoaded(fs) ==
    LET ra == IF refresh_on_startup_pending THEN StartRefreshAll(fs)
              ELSE [pending |-> pending_refreshes, refreshing |-> is_refreshing,
                    spawned |-> <<>>]
    IN  /\ OutstandingFetches + Len(ra.spawned) <= MaxFetches
        /\ ApplyFeeds(fs)
        /\ refresh_on_startup_pending' = FALSE
        /\ pending_refreshes' = ra.pending
        /\ is_refreshing' = ra.refreshing
        /\ tasks' = tasks (+) BagOfSeq(ra.spawned)
        /\ UNCHANGED configVars
        /\ last' = FeedsLoadedLast(fs)
        /\ RefreshFrame

RfMove(delta) ==
    /\ feed_list_items # <<>>
    /\ SetCursor(MoveIdx(SelOrZero(feeds_state), delta, Len(feed_list_items)))
    /\ UNCHANGED configVars
    /\ last' = Last("Move", None, None, FALSE)
    /\ UNCHANGED <<refreshVars, refresh_on_startup_pending, tasks>>
    /\ RefreshFrame

\* start_refresh_all from the RefreshAll key, RefreshCurrent on "All" or the timer
RfRefreshAllStep(ev) ==
    /\ feeds # <<>>
    /\ OutstandingFetches + Len(feeds) <= MaxFetches
    /\ pending_refreshes' = StartRefreshAll(feeds).pending
    /\ is_refreshing' = StartRefreshAll(feeds).refreshing
    /\ tasks' = tasks (+) BagOfSeq(StartRefreshAll(feeds).spawned)
    /\ UNCHANGED configVars
    /\ last' = Last(ev, None, None, FALSE)
    /\ UNCHANGED <<feedListVars, refresh_on_startup_pending>>
    /\ RefreshFrame

RfRefreshAll == RfRefreshAllStep("RefreshAll")

RfRefreshTick == RfRefreshAllStep("RefreshTick")

RfRefreshCurrent ==
    \/ StillViewingAll /\ RfRefreshAllStep("RefreshCurrent")
    \/ /\ Selected.kind = "Feed"
       /\ OutstandingFetches + 1 <= MaxFetches
       /\ pending_refreshes' = pending_refreshes + 1
       /\ is_refreshing' = TRUE
       /\ tasks' = tasks (+) BagOfSeq(<<refresh_one(Selected.id)>>)
       /\ UNCHANGED configVars
       /\ last' = Last("RefreshCurrent", Selected.id, None, FALSE)
       /\ UNCHANGED <<feedListVars, refresh_on_startup_pending>>
       /\ RefreshFrame

\* a FeedUpdateResult arrives
RfFeedUpdate(t) ==
    /\ BagIn(t, tasks)
    /\ t.kind = "Fetch"
    /\ tasks' = tasks (-) SetToBag({t})
    /\ pending_refreshes' = SaturatingDec(pending_refreshes)
    /\ is_refreshing' = IF pending_refreshes' = 0 THEN FALSE ELSE is_refreshing
    /\ UNCHANGED configVars
    /\ last' = Last("FeedUpdate", t.id, None, FALSE)
    /\ UNCHANGED <<feedListVars, refresh_on_startup_pending>>
    /\ RefreshFrame

RefreshNext ==
    \/ \E fs \in FeedLists : RfFeedsLoaded(fs)
    \/ \E d \in Deltas : RfMove(d)
    \/ RfRefreshAll
    \/ RfRefreshTick
    \/ RfRefreshCurrent
    \/ \E t \in TaskSet : RfFeedUpdate(t)

RefreshSpec == RefreshInit /\ [][RefreshNext]_vars

\* C12, as the specification states it: while a fetch started by RefreshAll,
\* RefreshCurrent, the startup refresh or the timer is outstanding,
\* is_refreshing is true.
RefreshingWhileFetching == (OutstandingFetches > 0) => is_refreshing

(***************************************************************************)
(* Edits of the configuration tree (app.rs, "Config edits")                *)
(***************************************************************************)
\* Vec::remove(i), 1-based
RemoveAt(s, i) == SubSeq(s, 1, i - 1) \o SubSeq(s, i + 1, Len(s))

\* the first group with the title among the items, 0 if there is none
GroupPos(items, title) ==
    LET hits == {i \in 1..Len(items) : items[i].kind = "Group" /\ items[i].title = title}
    IN  IF hits = {} THEN 0 ELSE Min(hits)

\* feed_source.feed.as_deref() == Some(feed_url)
IsFeedKeyed(item, feed_url) == item.kind = "Standalone" /\ item.feed = feed_url

\* the loop of remove_and_return_feed from index i on
RECURSIVE RemoveFeedFrom(_, _, _)
RemoveFeedFrom(items, feed_url, i) ==
    IF i > Len(items) THEN [found |-> NoItem, feeds |-> items]
    ELSE IF items[i].kind = "Standalone"
    THEN IF items[i].feed = feed_url
         THEN [found |-> items[i], feeds |-> RemoveAt(items, i)]
         ELSE RemoveFeedFrom(items, feed_url, i + 1)
    ELSE LET direct == {j \in 1..Len(items[i].feeds) :
                            IsFeedKeyed(items[i].feeds[j], feed_url)}
             inner  == RemoveFeedFrom(items[i].feeds, feed_url, 1)
         IN  IF direct # {}
             THEN [found |-> items[i].feeds[Min(direct)],
                   feeds |-> [items EXCEPT ![i].feeds = RemoveAt(@, Min(direct))]]
             ELSE IF inner.found # NoItem
             THEN [found |-> inner.found,
                   feeds |-> [items EXCEPT ![i].feeds = inner.feeds]]
             ELSE RemoveFeedFrom(items, feed_url, i + 1)

remove_and_return_feed(items, feed_url) == RemoveFeedFrom(items, feed_url, 1)

\* the places (index paths from the root) of the feed entries with the key
RECURSIVE FeedPositions(_, _)
FeedPositions(items, feed_url) ==
    UNION {IF items[i].kind = "Standalone"
           THEN (IF items[i].feed = feed_url THEN {<<i>>} ELSE {})
           ELSE {<<i>> \o q : q \in FeedPositions(items[i].feeds, feed_url)} :
           i \in 1..Len(items)}

\* Vec::remove at a place of the tree
RECURSIVE RemoveAtPos(_, _)
RemoveAtPos(items, pos) ==
    IF Len(pos) = 1 THEN RemoveAt(items, pos[1])
    ELSE [items EXCEPT ![pos[1]].feeds = RemoveAtPos(@, Tail(pos))]

\* the first index at which two places differ (no place of an entry is a
\* prefix of another's)
FirstDiff(p, q) == Min({k \in 1..Len(p) : k > Len(q) \/ p[k] # q[k]})

\* depth-first document order of two different places
DocBefore(p, q) == p[FirstDiff(p, q)] < q[FirstDiff(p, q)]

\* a removal that takes the first entry in document order
remove_feed_recursive_DocOrder(items, feed_url) ==
    LET P == FeedPositions(items, feed_url)
    IN  IF P = {} THEN [removed |-> FALSE, feeds |-> items]
        ELSE [removed |-> TRUE,
              feeds   |-> RemoveAtPos(items, CHOOSE p \in P :
                                                \A q \in P \ {p} : DocBefore(p, q))]

\* remove_feed_recursive walks the tree as remove_and_return_feed does
remove_feed_recursive(items, feed_url) ==
    [removed |-> RemoveFeedFrom(items, feed_url, 1).found # NoItem,
     feeds   |-> RemoveFeedFrom(items, feed_url, 1).feeds]

RECURSIVE remove_and_return_group(_, _, _)
remove_and_return_group(items, components, depth) ==
    IF depth >= Len(components) THEN [found |-> NoItem, feeds |-> items]
    ELSE LET pos     == GroupPos(items, components[depth + 1])
             is_last == depth = Len(components) - 1
         IN  IF pos = 0 THEN [found |-> NoItem, feeds |-> items]
             ELSE IF is_last THEN [found |-> items[pos], feeds |-> RemoveAt(items, pos)]
             ELSE LET inner == remove_and_return_group(items[pos].feeds, components, depth + 1)
                  IN  [found |-> inner.found,
                       feeds |-> [items EXCEPT ![pos].feeds = inner.feeds]]

extract_group_from_config(items, group_path) ==
    remove_and_return_group(items, SplitPath(group_path), 0)

\* a removal that deletes the group of the first segment, whatever follows
remove_group_recursive_Top(items, group_path) ==
    LET pos == GroupPos(items, SplitPath(group_path)[1])
    IN  IF pos = 0 THEN [removed |-> FALSE, feeds |-> items]
        ELSE [removed |-> TRUE, feeds |-> RemoveAt(items, pos)]

\* remove_group_recursive_helper walks the tree as remove_and_return_group does
remove_group_recursive(items, group_path) ==
    [removed |-> remove_and_return_group(items, SplitPath(group_path), 0).found # NoItem,
     feeds   |-> remove_and_return_group(items, SplitPath(group_path), 0).feeds]

\* an insertion that pushes the terminal group without looking for it
RECURSIVE insert_group_recursive_AlwaysPush(_, _, _)
insert_group_recursive_AlwaysPush(items, components, depth) ==
    IF depth >= Len(components) THEN items
    ELSE LET title   == components[depth + 1]
             pos     == GroupPos(items, title)
             is_last == depth = Len(components) - 1
         IN  IF is_last THEN Append(items, FeedGroup(title, <<>>))
             ELSE IF pos # 0
             THEN [items EXCEPT ![pos].feeds =
                       insert_group_recursive_AlwaysPush(@, components, depth + 1)]
             ELSE Append(items, FeedGroup(title,
                            insert_group_recursive_AlwaysPush(<<>>, components, depth + 1)))

RECURSIVE insert_group_recursive(_, _, _)
insert_group_recursive(items, components, depth) ==
    IF depth >= Len(components) THEN items
    ELSE LET title   == components[depth + 1]
             pos     == GroupPos(items, title)
             is_last == depth = Len(components) - 1
         IN  IF pos # 0
             THEN IF is_last THEN items
                  ELSE [items EXCEPT ![pos].feeds =
                            insert_group_recursive(@, components, depth + 1)]
             ELSE IF is_last THEN Append(items, FeedGroup(title, <<>>))
             ELSE Append(items, FeedGroup(title,
                            insert_group_recursive(<<>>, components, depth + 1)))

add_group_to_config(items, group_path) ==
    insert_group_recursive(items, SplitPath(group_path), 0)

\* a paste that ignores the target group and pushes at the root
paste_feed_into_group_recursive_AtRoot(items, feed_item, components, depth) ==
    Append(items, feed_item)

RECURSIVE paste_feed_into_group_recursive(_, _, _, _)
paste_feed_into_group_recursive(items, feed_item, components, depth) ==
    IF depth >= Len(components) THEN items
    ELSE LET title   == components[depth + 1]
             pos     == GroupPos(items, title)
             is_last == depth = Len(components) - 1
         IN  IF pos # 0
             THEN IF is_last THEN [items EXCEPT ![pos].feeds = Append(@, feed_item)]
                  ELSE [items EXCEPT ![pos].feeds =
                            paste_feed_into_group_recursive(@, feed_item, components, depth + 1)]
             ELSE IF is_last THEN Append(items, FeedGroup(title, <<feed_item>>))
             ELSE Append(items, FeedGroup(title,
                     paste_feed_into_group_recursive(<<>>, feed_item, components, depth + 1)))

paste_feed_into_group(items, feed_item, group_path) ==
    paste_feed_into_group_recursive(items, feed_item, SplitPath(group_path), 0)

RECURSIVE paste_group_into_group_recursive(_, _, _, _)
paste_group_into_group_recursive(items, group_item, components, depth) ==
    IF depth >= Len(components) THEN items
    ELSE LET title   == components[depth + 1]
             pos     == GroupPos(items, title)
             is_last == depth = Len(components) - 1
         IN  IF pos # 0
             THEN IF is_last THEN [items EXCEPT ![pos].feeds = Append(@, group_item)]
                  ELSE [items EXCEPT ![pos].feeds =
                            paste_group_into_group_recursive(@, group_item, components, depth + 1)]
             ELSE IF is_last THEN Append(items, FeedGroup(title, <<group_item>>))
             ELSE Append(items, FeedGroup(title,
                     paste_group_into_group_recursive(<<>>, group_item, components, depth + 1)))

paste_group_into_group(items, group_item, parent_path) ==
    paste_group_into_group_recursive(items, group_item, SplitPath(parent_path), 0)

\* the tree that paste_feed_to_config saves; target_group "" stands for None
paste_feed_to_config(items, feed_source, target_group) ==
    IF target_group # <<>> THEN paste_feed_into_group(items, feed_source, target_group)
    ELSE Append(items, feed_source)

\* a paste of a group that puts it in front of the root's items
paste_group_to_config_Front(items, group, target_parent) ==
    IF target_parent # <<>> THEN paste_group_into_group(items, group, target_parent)
    ELSE <<group>> \o items

\* the tree that paste_group_to_config saves
paste_group_to_config(items, group, target_parent) ==
    IF target_parent # <<>> THEN paste_group_into_group(items, group, target_parent)
    ELSE Append(items, group)

\* format!("{} > {}", path, title), or the title alone at the root
ChildPath(current_path, title) ==
    IF current_path = <<>> THEN title ELSE current_path \o <<SEP>> \o title

\* FeedConfigItem::collect_feeds over the root's items: (group_path, FeedSource) pairs
RECURSIVE collect_feeds(_, _)
collect_feeds(items, current_path) ==
    IF items = <<>> THEN <<>>
    ELSE (IF Head(items).kind = "Standalone"
          THEN <<[group_path |-> current_path, feed |-> Head(items)]>>
          ELSE collect_feeds(Head(items).feeds, ChildPath(current_path, Head(items).title)))
         \o collect_feeds(Tail(items), current_path)

\* a collector that looks at the items of one level only
collect_empty_groups_TopLevel(items, current_path) ==
    LET empty == FilterIdx(items, {i \in 1..Len(items) :
                                      items[i].kind = "Group" /\ items[i].feeds = <<>>}, 1)
    IN  [i \in 1..Len(empty) |-> ChildPath(current_path, empty[i].title)]

RECURSIVE collect_empty_groups(_, _)
collect_empty_groups(items, current_path) ==
    IF items = <<>> THEN <<>>
    ELSE (IF Head(items).kind = "Group"
          THEN (IF Head(items).feeds = <<>>
                THEN <<ChildPath(current_path, Head(items).title)>> ELSE <<>>)
               \o collect_empty_groups(Head(items).feeds,
                                       ChildPath(current_path, Head(items).title))
          ELSE <<>>)
         \o collect_empty_groups(Tail(items), current_path)

collect_empty_groups_from_config(items) == collect_empty_groups(items, <<>>)

\* feed.feed.as_ref().unwrap_or(&feed.url)
FeedUrlOf(feed_source) ==
    IF feed_source.feed # None THEN feed_source.feed ELSE feed_source.url

\* the feeds table after sync_feeds_from_config, as get_all_feeds returns it: one
\* row per feed URL of the tree (the upsert keeps the values of the last one),
\* the row's id standing for its URL; no articles, so every count is 0
sync_feeds_from_config(items) ==
    LET pairs == collect_feeds(items, <<>>)
        final == {i \in 1..Len(pairs) :
                     \A j \in (i + 1)..Len(pairs) :
                         FeedUrlOf(pairs[j].feed) # FeedUrlOf(pairs[i].feed)}
    IN  SortFeeds({Feed(FeedUrlOf(pairs[i].feed), pairs[i].group_path, 0) : i \in final})

\* the task spawned by reload_feeds_from_config; it posts FeedsLoaded when done
SyncTask(items) ==
    [Task("GetFeeds", "done", None, <<>>, "config") EXCEPT
        !.fds = sync_feeds_from_config(items)]

(***************************************************************************)
(* ConfigSpec: the feeds pane under Cut, Paste, Delete and the submitted   *)
(* "create group" popup.  Every edit is taken with save_feeds_only         *)
(* succeeding (ok) and failing; the article side of the handlers is left   *)
(* out.  At most MaxEdits edits are made.                                  *)
(***************************************************************************)
MaxEdits == 3

\* the names typed into the "create group" popup
GroupNames == {<<1>>, <<2>>}

\* "a" with feed 1 and the subgroup "b" holding feed 2, then a standalone feed
\* without a feed URL; or a standalone feed, the empty group "b" and "a"
InitialConfigs ==
    {<<FeedGroup(<<1>>, <<FeedSource(1, 1), FeedGroup(<<2>>, <<FeedSource(2, 2)>>)>>),
       FeedSource(3, None)>>,
     <<FeedSource(2, 2), FeedGroup(<<2>>, <<>>), FeedGroup(<<1>>, <<FeedSource(1, 1)>>)>>}

ConfigInit ==
    /\ config \in InitialConfigs
    /\ feeds = sync_feeds_from_config(config)
    /\ empty_groups = collect_empty_groups_from_config(config)
    /\ feed_list_items = FlattenFeeds(feeds, {}, empty_groups)
    /\ feeds_state = 0
    /\ collapsed_groups = {}
    /\ articles = <<>>
    /\ articles_state = None
    /\ selected_article_id = None
    /\ article_content = EmptyContent
    /\ article_content_lines = 0
    /\ article_scroll = 0
    /\ active_pane = "Feeds"
    /\ is_refreshing = FALSE
    /\ pending_refreshes = 0
    /\ skip_articles_reload_after_feeds_load = FALSE
    /\ refresh_on_startup_pending = FALSE
    /\ store = <<>>
    /\ tasks = EmptyBag
    /\ actions_used = 0
    /\ stale = FALSE
    /\ clipboard = NoClipboard
    /\ status_message = "none"
    /\ cut_history = NoCut
    /\ last = Last("Init", None, None, FALSE)

ConfigFrame ==
    UNCHANGED <<articleVars, viewVars, active_pane, refreshVars, store, stale,
                skip_articles_reload_after_feeds_load, refresh_on_startup_pending>>

CanEdit == active_pane = "Feeds" /\ actions_used < MaxEdits /\ BagCardinality(tasks) <= MaxPending

\* the target of a paste and the parent of a created group; "" stands for None
get_selected_group_path ==
    IF Selected.kind = "GroupHeader" THEN Selected.full_path
    ELSE IF Selected.kind = "Feed" THEN Selected.group_title
    ELSE <<>>

\* an edit that has changed the tree to items and calls save_feeds_only; only a
\* successful save is followed by reload_feeds_from_config
SaveEdit(ev, items, clip, msg, ok, path, item) ==
    /\ config' = items
    /\ clipboard' = clip
    /\ status_message' = IF ok THEN msg ELSE "Failed to save config"
    /\ empty_groups' = IF ok THEN collect_empty_groups_from_config(items) ELSE empty_groups
    /\ tasks' = IF ok THEN tasks (+) SetToBag({SyncTask(items)}) ELSE tasks
    /\ actions_used' = actions_used + 1
    /\ last' = [Last(ev, None, 1, ok) EXCEPT !.path = path, !.item = item]
    /\ UNCHANGED <<feeds, feed_list_items, feeds_state, collapsed_groups>>
    /\ ConfigFrame

\* an edit that returns before it touches the tree
RefuseEdit(ev, msg, clip) ==
    /\ status_message' = msg
    /\ clipboard' = clip
    /\ actions_used' = actions_used + 1
    /\ last' = Last(ev, None, 0, FALSE)
    /\ UNCHANGED <<config, feedListVars, tasks>>
    /\ ConfigFrame

\* a Paste that leaves the payload in the clipboard
paste_clipboard_Keep(ok) ==
    /\ CanEdit
    /\ UNCHANGED cut_history
    /\ IF clipboard.kind = "None"
       THEN RefuseEdit("Paste", "Nothing to paste (clipboard is empty)", clipboard)
       ELSE IF Selected.kind = "None" THEN RefuseEdit("Paste", "none", clipboard)
       ELSE IF clipboard.kind = "Feed"
       THEN SaveEdit("Paste",
                     paste_feed_to_config(config, clipboard.feed_source, get_selected_group_path),
                     clipboard, "Pasted feed", ok, get_selected_group_path,
                     clipboard.feed_source)
       ELSE SaveEdit("Paste",
                     paste_group_to_config(config, clipboard.group, get_selected_group_path),
                     clipboard, "Pasted group", ok, get_selected_group_path, clipboard.group)

cut_selected_item(ok) ==
    LET g == extract_group_from_config(config, Selected.full_path)
        f == remove_and_return_feed(config, Selected.id)
    IN  /\ CanEdit
        /\ IF Selected.kind = "GroupHeader" /\ g.found # NoItem
           THEN /\ SaveEdit("Cut", g.feeds,
                            [kind |-> "Group", original_path |-> Selected.full_path,
                             group |-> g.found],
                            "Cut group", ok, Selected.full_path, g.found)
                /\ cut_history' = [before |-> config, after |-> g.feeds]
           ELSE IF Selected.kind = "Feed" /\ f.found # NoItem
           THEN /\ SaveEdit("Cut", f.feeds,
                            [kind |-> "Feed", feed_source |-> f.found,
                             original_group |-> Selected.group_title],
                            "Cut feed", ok, Selected.group_title, f.found)
                /\ cut_history' = [before |-> config, after |-> f.feeds]
           ELSE /\ RefuseEdit("Cut", IF Selected.kind = "All" THEN "Cannot cut 'All'"
                                     ELSE "not found in config", clipboard)
                /\ UNCHANGED cut_history

paste_clipboard(ok) ==
    /\ CanEdit
    /\ UNCHANGED cut_history
    /\ IF clipboard.kind = "None"
       THEN RefuseEdit("Paste", "Nothing to paste (clipboard is empty)", clipboard)
       ELSE IF Selected.kind = "None" THEN RefuseEdit("Paste", "none", clipboard)
       ELSE IF clipboard.kind = "Feed"
       THEN SaveEdit("Paste",
                     paste_feed_to_config(config, clipboard.feed_source, get_selected_group_path),
                     NoClipboard, "Pasted feed", ok, get_selected_group_path,
                     clipboard.feed_source)
       ELSE SaveEdit("Paste",
                     paste_group_to_config(config, clipboard.group, get_selected_group_path),
                     NoClipboard, "Pasted group", ok, get_selected_group_path, clipboard.group)

delete_selected_item(ok) ==
    LET g == remove_group_recursive(config, Selected.full_path)
        f == remove_feed_recursive(config, Selected.id)
    IN  /\ CanEdit
        /\ UNCHANGED cut_history
        /\ IF Selected.kind = "GroupHeader" /\ g.removed
           THEN SaveEdit("Delete", g.feeds, clipboard, "Deleted group", ok,
                         Selected.full_path, NoItem)
           ELSE IF Selected.kind = "Feed" /\ f.removed
           THEN SaveEdit("Delete", f.feeds, clipboard, "Deleted feed", ok,
                         Selected.group_title, NoItem)
           ELSE RefuseEdit("Delete", IF Selected.kind = "All" THEN "Cannot delete 'All'"
                                     ELSE "not found in config", clipboard)

create_group(group_name, ok) ==
    LET full_path == ChildPath(get_selected_group_path, group_name)
    IN  /\ CanEdit
        /\ UNCHANGED cut_history
        /\ SaveEdit("CreateGroup", add_group_to_config(config, full_path), clipboard,
                    "Created group", ok, full_path, NoItem)

\* MoveUp / MoveDown in the feeds pane; update() clears the status message
CfMove(delta) ==
    /\ active_pane = "Feeds"
    /\ feed_list_items # <<>>
    /\ SetCursor(MoveIdx(SelOrZero(feeds_state), delta, Len(feed_list_items)))
    /\ status_message' = "none"
    /\ last' = Last("Move", None, None, FALSE)
    /\ UNCHANGED <<config, clipboard, cut_history, tasks, actions_used>>
    /\ ConfigFrame

\* DbResult::FeedsLoaded of a reload_feeds_from_config task
CfFeedsLoaded(t) ==
    /\ BagIn(t, tasks)
    /\ IsFeedsResult(t)
    /\ ApplyFeeds(t.fds)
    /\ tasks' = tasks (-) SetToBag({t})
    /\ last' = FeedsLoadedLast(t.fds)
    /\ UNCHANGED <<configVars, actions_used>>
    /\ ConfigFrame

ConfigNext ==
    \/ \E ok \in BOOLEAN : cut_selected_item(ok)
    \/ \E ok \in BOOLEAN : paste_clipboard(ok)
    \/ \E ok \in BOOLEAN : delete_selected_item(ok)
    \/ \E name \in GroupNames, ok \in BOOLEAN : create_group(name, ok)
    \/ \E d \in Deltas : CfMove(d)
    \/ \E t \in TaskSet : CfFeedsLoaded(t)

ConfigSpec == ConfigInit /\ [][ConfigNext]_vars

ConfigEdits == {"Cut", "Paste", "Delete", "CreateGroup"}

\* C13, as the specification states it: when save_feeds_only fails during a
\* config edit, the failure is shown as the status message, the in-memory
\* config tree is the tree before the edit and no store resynchronization is
\* started.
FailedSaveLeavesConfig ==
    [][(last'.ev \in ConfigEdits /\ last'.aux = 1 /\ ~last'.applied)
       => (/\ status_message' = "Failed to save config"
           /\ config' = config
           /\ tasks' = tasks)]_vars

\* the Cut or Paste step at hand works on a root group of the tree
IsRootGroupPath(path) == path # <<>> /\ Len(SplitPath(path)) = 1

\* Cut on the header of a group that the root of the tree holds
CutsRootGroup ==
    /\ last'.ev = "Cut"
    /\ Selected.kind = "GroupHeader"
    /\ IsRootGroupPath(Selected.full_path)
    /\ GroupPos(config, Selected.full_path) # 0

\* Paste of a cut root group into the root, no edit since the Cut
PastesRootGroupBack ==
    /\ last'.ev = "Paste"
    /\ clipboard.kind = "Group"
    /\ IsRootGroupPath(clipboard.original_path)
    /\ config = cut_history.after
    /\ Selected.kind # "None"
    /\ get_selected_group_path = <<>>

\* C14, as the code has it: Cut on the header of a root group G removes G from
\* the tree and puts G with all its content in the clipboard as a Group
\* payload; a following Paste into the root appends G to the root's items, which
\* gives the original tree with G moved behind the other root items.
CutPasteRootGroupAppends ==
    [][/\ CutsRootGroup
          => LET pos == GroupPos(config, Selected.full_path)
             IN  /\ config' = RemoveAt(config, pos)
                 /\ clipboard' = [kind |-> "Group", original_path |-> Selected.full_path,
                                  group |-> config[pos]]
       /\ PastesRootGroupBack
          => LET pos == GroupPos(cut_history.before, clipboard.original_path)
             IN  /\ config' = RemoveAt(cut_history.before, pos)
                                  \o <<cut_history.before[pos]>>
                 /\ (pos = Len(cut_history.before) => config' = cut_history.before)]_vars

\* a root group that was not the last root item has been cut and pasted back
CutPasteRootGroupWitness ==
    /\ last.ev = "Paste"
    /\ last.item.kind = "Group"
    /\ last.path = <<>>
    /\ cut_history.after # <<>>
    /\ config # cut_history.before
    /\ config = cut_history.after \o <<last.item>>

\* C14, as the specification states it: a Paste into the root that follows the
\* Cut of a root group yields the original tree.
CutPasteRootGroupIdentical ==
    [][PastesRootGroupBack => config' = cut_history.before]_vars

\* the number of items of the tree that equal the item
RECURSIVE Occurrences(_, _)
Occurrences(items, item) ==
    IF items = <<>> THEN 0
    ELSE (IF Head(items) = item THEN 1 ELSE 0)
         + Occurrences(Head(items).feeds, item)
         + Occurrences(Tail(items), item)

ClipboardPayload ==
    IF clipboard.kind = "Feed" THEN clipboard.feed_source ELSE clipboard.group

FeedUrls == 1..3

\* the group path the tree files the feed with the key under ("" at the root)
OriginalGroup(items, feed_url) ==
    LET pairs == collect_feeds(items, <<>>)
        hits  == {i \in 1..Len(pairs) : pairs[i].feed.feed = feed_url}
    IN  IF hits = {} THEN <<>> ELSE pairs[Min(hits)].group_path

\* remove_and_return_feed followed by the re-insertion at the original group path
Reinserted(items, feed_url) ==
    paste_feed_to_config(remove_and_return_feed(items, feed_url).feeds,
                         remove_and_return_feed(items, feed_url).found,
                         OriginalGroup(items, feed_url))

\* the trees are equal except for the order of the items of the group at the
\* path components[depth + 1 ..] ("" : the root)
RECURSIVE EqualButOrderIn(_, _, _, _)
EqualButOrderIn(t1, t2, components, depth) ==
    IF depth >= Len(components) THEN BagOfSeq(t1) = BagOfSeq(t2)
    ELSE LET pos == GroupPos(t1, components[depth + 1])
         IN  /\ pos # 0
             /\ Len(t1) = Len(t2)
             /\ \A i \in 1..Len(t1) : i # pos => t1[i] = t2[i]
             /\ t2[pos].kind = "Group"
             /\ t2[pos].title = t1[pos].title
             /\ EqualButOrderIn(t1[pos].feeds, t2[pos].feeds, components, depth + 1)

EqualButGroupOrder(t1, t2, group_path) ==
    EqualButOrderIn(t1, t2, IF group_path = <<>> THEN <<>> ELSE SplitPath(group_path), 0)

\* no two groups among the same items have the same title, at any depth
RECURSIVE UniqueSiblingTitles(_)
UniqueSiblingTitles(items) ==
    /\ \A i, j \in 1..Len(items) :
           (i # j /\ items[i].kind = "Group" /\ items[j].kind = "Group")
               => items[i].title # items[j].title
    /\ \A i \in 1..Len(items) : UniqueSiblingTitles(items[i].feeds)

GroupPaths ==
    {feeds[i].group_title : i \in {j \in 1..Len(feeds) : feeds[j].group_title # <<>>}}
    \cup Range(empty_groups)

\* a path and its ancestors
PrefixesOf(p) ==
    LET c == SplitPath(p) IN {JoinPath(SubSeq(c, 1, k)) : k \in 1..Len(c)}

NodePaths == UNION {PrefixesOf(p) : p \in GroupPaths}

GroupTree ==
    build_group_tree(FilterIdx(feeds, {i \in 1..Len(feeds) : feeds[i].group_title # <<>>}, 1),
                     empty_groups)

\* the nodes of a forest, parents before children
RECURSIVE AllNodes(_)
AllNodes(nodes) ==
    IF nodes = <<>> THEN <<>>
    ELSE <<Head(nodes)>> \o AllNodes(Head(nodes).children) \o AllNodes(Tail(nodes))

RECURSIVE SiblingTitlesDiffer(_)
SiblingTitlesDiffer(nodes) ==
    /\ \A i, j \in 1..Len(nodes) : i # j => nodes[i].title # nodes[j].title
    /\ \A i \in 1..Len(nodes) : SiblingTitlesDiffer(nodes[i].children)

\* C17: build_group_tree holds exactly one node for every path of F and E,
\* paths with a common prefix meet in one node for that prefix (no path has
\* two nodes, and the nodes are the paths and their ancestors), and no two
\* siblings carry the same title.
OneNodePerPath ==
    LET all == AllNodes(GroupTree)
    IN  /\ \A p \in GroupPaths :
              Cardinality({i \in 1..Len(all) : all[i].full_path = p}) = 1
        /\ \A i, j \in 1..Len(all) : i # j => all[i].full_path # all[j].full_path
        /\ {all[i].full_path : i \in 1..Len(all)} = NodePaths
        /\ SiblingTitlesDiffer(GroupTree)

\* a loaded feed list with a feed in a group and another in its subgroup
OneNodePerPathWitness ==
    /\ last.ev = "FeedsLoaded"
    /\ \E i, j \in 1..Len(feeds) :
          /\ feeds[i].group_title # <<>>
          /\ feeds[i].group_title # feeds[j].group_title
          /\ feeds[i].group_title \in PrefixesOf(feeds[j].group_title)
    /\ Len(AllNodes(GroupTree)) = 2


\* the unread counts of the feed records filed under a path or below it
SubtreeUnread(p) ==
    SumSeq([i \in 1..Len(feeds) |->
              IF feeds[i].group_title # <<>> /\ p \in PrefixesOf(feeds[i].group_title)
              THEN feeds[i].unread_count ELSE 0])

\* C18: in the tree of build_group_tree every node holds the feeds filed
\* under its own path, its unread_count is the sum of the unread counts of
\* these direct feeds and of all feeds of descendant nodes, and a node that
\* exists only through an empty-group path has no feeds and count 0.
UnreadCountIsSubtreeSum ==
    LET all == AllNodes(GroupTree)
    IN  \A n \in 1..Len(all) :
          /\ all[n].feeds = FeedsOfPath(feeds, all[n].full_path)
          /\ all[n].unread_count =
                SumSeq([i \in 1..Len(all[n].feeds) |-> all[n].feeds[i].unread_count])
                + SumSeq([c \in 1..Len(all[n].children) |->
                            SubtreeUnread(all[n].children[c].full_path)])
          /\ all[n].unread_count = SubtreeUnread(all[n].full_path)
          /\ (/\ all[n].full_path \in Range(empty_groups)
              /\ \A i \in 1..Len(feeds) :
                    all[n].full_path \notin PrefixesOf(feeds[i].group_title))
             => all[n].feeds = <<>> /\ all[n].unread_count = 0

\* a node with an unread direct feed and an unread feed in a node below it
UnreadCountIsSubtreeSumWitness ==
    LET all == AllNodes(GroupTree)
    IN  /\ last.ev = "FeedsLoaded"
        /\ \E n \in 1..Len(all) :
              /\ all[n].feeds # <<>> /\ all[n].children # <<>>
              /\ SumSeq([i \in 1..Len(all[n].feeds) |-> all[n].feeds[i].unread_count]) > 0
              /\ all[n].unread_count >
                    SumSeq([i \in 1..Len(all[n].feeds) |-> all[n].feeds[i].unread_count])


\* some proper ancestor of the path is in the collapsed set
AncestorCollapsed(p) == \E q \in PrefixesOf(p) \ {p} : q \in collapsed_groups

HeaderRowsOf(p) ==
    {i \in 1..Len(feed_list_items) :
        feed_list_items[i].kind = "GroupHeader" /\ feed_list_items[i].full_path = p}

FeedRowsOf(id) ==
    {i \in 1..Len(feed_list_items) :
        feed_list_items[i].kind = "Feed" /\ feed_list_items[i].id = id}

\* C19: after a rebuild the header row of a group is in the display list
\* exactly when no ancestor of the group is collapsed, carrying collapsed =
\* TRUE exactly when the group itself is in the collapsed set; the row of a
\* grouped feed is in the list exactly when neither its group nor an ancestor
\* of it is collapsed.
CollapseKeepsHeaders ==
    last.ev \in {"FeedsLoaded", "Collapse"} =>
        /\ \A p \in NodePaths :
              /\ Cardinality(HeaderRowsOf(p)) = (IF AncestorCollapsed(p) THEN 0 ELSE 1)
              /\ \A i \in HeaderRowsOf(p) :
                    feed_list_items[i].collapsed = (p \in collapsed_groups)
        /\ \A f \in 1..Len(feeds) :
              feeds[f].group_title # <<>> =>
                 Cardinality(FeedRowsOf(feeds[f].id)) =
                    (IF feeds[f].group_title \in collapsed_groups
                        \/ AncestorCollapsed(feeds[f].group_title)
                     THEN 0 ELSE 1)

\* a collapsed group with a feed and a child group: its header is in the
\* list with collapsed = TRUE, the feed's row and the child's header are not
CollapseKeepsHeadersWitness ==
    /\ last.ev = "Collapse"
    /\ \E p \in collapsed_groups :
          /\ \E i \in HeaderRowsOf(p) : feed_list_items[i].collapsed
          /\ \E f \in 1..Len(feeds) :
                feeds[f].group_title = p /\ FeedRowsOf(feeds[f].id) = {}
          /\ \E q \in NodePaths : q # p /\ p \in PrefixesOf(q) /\ HeaderRowsOf(q) = {}


\* the header of a path and, unless the path is collapsed, its direct feeds
RowsOfPath(p) ==
    LET depth  == Len(SplitPath(p)) - 1
        direct == FeedsOfPath(feeds, p)
    IN  <<[kind |-> "GroupHeader", full_path |-> p, collapsed |-> p \in collapsed_groups,
           unread_count |-> SubtreeUnread(p), depth |-> depth, id |-> None,
           group_title |-> <<>>]>> \o
        (IF p \in collapsed_groups THEN <<>>
         ELSE [i \in 1..Len(direct) |-> FeedRow(direct[i], depth + 1)])

RECURSIVE RowsOfPaths(_, _)
RowsOfPaths(paths, i) ==
    IF i > Len(paths) THEN <<>> ELSE RowsOfPath(paths[i]) \o RowsOfPaths(paths, i + 1)

\* the list the ordering rule describes: the All row, the standalone feeds in
\* record order, then the groups no ancestor of which is collapsed in sorted
\* path order (a path sorts before the paths below it and these before its
\* next sibling: depth-first), each header followed by its direct feeds
OrderedRows ==
    LET standalone == FilterIdx(feeds, {i \in 1..Len(feeds) : feeds[i].group_title = <<>>}, 1)
        shown      == SortPaths({p \in NodePaths : ~AncestorCollapsed(p)})
    IN  <<AllRow(SumSeq([i \in 1..Len(feeds) |-> feeds[i].unread_count]))>> \o
        [i \in 1..Len(standalone) |-> FeedRow(standalone[i], 0)] \o
        RowsOfPaths(shown, 1)

Orderings(s) ==
    {[i \in 1..Len(s) |-> s[f[i]]] :
        f \in {g \in [1..Len(s) -> 1..Len(s)] : \A i, j \in 1..Len(s) : i # j => g[i] # g[j]}}

\* the empty-group paths the orderings are drawn from: "b" and "a > b"
EmptyPathPool == {<<2>>, <<1, SEP, 2>>}

EmptyPathLists ==
    UNION {{e \in [1..Cardinality(E) -> E] : Range(e) = E} : E \in SUBSET EmptyPathPool}

\* a group node without the order of its direct feeds
RECURSIVE Skeleton(_)
Skeleton(node) ==
    [title |-> node.title, full_path |-> node.full_path,
     unread_count |-> node.unread_count, feeds |-> Range(node.feeds),
     children |-> [i \in 1..Len(node.children) |-> Skeleton(node.children[i])]]

Skeletons(nodes) == [i \in 1..Len(nodes) |-> Skeleton(nodes[i])]

\* the group header rows of a display list, in list order
HeaderRowsIn(items) ==
    FilterIdx(items, {i \in 1..Len(items) : items[i].kind = "GroupHeader"}, 1)

GroupedFeeds == FilterIdx(feeds, {i \in 1..Len(feeds) : feeds[i].group_title # <<>>}, 1)

\* C21: for any two orderings of the same feed records and of the same
\* empty-group paths build_group_tree yields the same group nodes in the
\* same sibling order, and the display lists built from the two orderings
\* hold the same sequence of group header rows.
TreeIndependentOfInputOrder ==
    \A e1 \in EmptyPathLists :
      \A e2 \in Orderings(e1) :
        \A f2 \in Orderings(feeds) :
          LET g2 == FilterIdx(f2, {i \in 1..Len(f2) : f2[i].group_title # <<>>}, 1)
          IN  /\ Skeletons(build_group_tree(GroupedFeeds, e1)) =
                 Skeletons(build_group_tree(g2, e2))
              /\ HeaderRowsIn(FlattenFeeds(feeds, collapsed_groups, e1)) =
                 HeaderRowsIn(FlattenFeeds(f2, collapsed_groups, e2))

\* loaded feeds of two different groups: the reordered input presents the
\* groups in the other order
TreeIndependentOfInputOrderWitness ==
    /\ last.ev = "FeedsLoaded"
    /\ Len(feeds) = 2
    /\ feeds[1].group_title # <<>> /\ feeds[2].group_title # <<>>
    /\ feeds[1].group_title # feeds[2].group_title
    /\ Len(build_group_tree(GroupedFeeds, <<<<1, SEP, 2>>, <<2>>>>)) = 2


(***************************************************************************)
(* Config tree functions, on the trees ConfigSpec reaches                  *)
(***************************************************************************)
\* every group of a tree with its full path, in document order
RECURSIVE GroupsOf(_, _)
GroupsOf(items, current_path) ==
    IF items = <<>> THEN <<>>
    ELSE (IF Head(items).kind = "Group"
          THEN <<[full_path |-> ChildPath(current_path, Head(items).title),
                  feeds |-> Head(items).feeds]>>
               \o GroupsOf(Head(items).feeds, ChildPath(current_path, Head(items).title))
          ELSE <<>>)
         \o GroupsOf(Tail(items), current_path)

\* C22: collect_empty_groups returns exactly the full paths of the groups of
\* the config tree whose feeds list is empty, at any nesting depth and in
\* document order; a group holding a feed or a nested group is not returned
\* and standalone feeds contribute nothing.
EmptyGroupsCollected ==
    LET groups == GroupsOf(config, <<>>)
        empty  == FilterIdx(groups, {i \in 1..Len(groups) : groups[i].feeds = <<>>}, 1)
    IN  collect_empty_groups_from_config(config) =
            [i \in 1..Len(empty) |-> empty[i].full_path]

\* an edited tree with a standalone feed at the root, an empty group nested in
\* a group and a second empty group
EmptyGroupsCollectedWitness ==
    LET found == collect_empty_groups_from_config(config)
    IN  /\ last.ev \in {"CreateGroup", "Cut", "Delete", "Paste"}
        /\ Len(found) >= 2
        /\ \E i \in 1..Len(found) : SEP \in Range(found[i])
        /\ \E i \in 1..Len(config) : config[i].kind = "Standalone"
        /\ Len(GroupsOf(config, <<>>)) > Len(found)


\* the group paths handed to add_group_to_config
InsertPathPool ==
    {<<1>>, <<1, SEP, 2>>, <<2, SEP, 1>>, <<1, SEP, 2, SEP, 1>>, <<2, SEP, 2, SEP, 1>>}

\* how many leading segments the walk finds: at each level the first group
\* with the segment's title
RECURSIVE SegmentsFound(_, _, _)
SegmentsFound(items, components, depth) ==
    IF depth >= Len(components) \/ GroupPos(items, components[depth + 1]) = 0 THEN 0
    ELSE 1 + SegmentsFound(items[GroupPos(items, components[depth + 1])].feeds,
                           components, depth + 1)

GroupPathsOf(items) ==
    LET groups == GroupsOf(items, <<>>) IN {groups[i].full_path : i \in 1..Len(groups)}

\* the steps that set the config tree: the start and the four edits (a cursor
\* move or a FeedsLoaded result keeps the tree of the state before)
ConfigEvents == {"Init", "CreateGroup", "Cut", "Paste", "Delete"}

\* C23: after every step that sets the config tree, inserting a group path
\* creates one group for every segment the walk does not find, leaves the
\* tree unchanged when the terminal segment is found, and inserting the same
\* path a second time changes nothing.
InsertGroupIdempotent ==
    last.ev \in ConfigEvents =>
      \A p \in InsertPathPool :
        LET once == add_group_to_config(config, p)
            c    == SplitPath(p)
        IN  /\ add_group_to_config(once, p) = once
            /\ p \in GroupPathsOf(once)
            /\ Len(GroupsOf(once, <<>>)) =
                  Len(GroupsOf(config, <<>>)) + Len(c) - SegmentsFound(config, c, 0)
            /\ SegmentsFound(config, c, 0) = Len(c) => once = config
            /\ SegmentsFound(once, c, 0) = Len(c)

\* a created nested group: the same create is now a no-op, while another path
\* would still create two groups
InsertGroupIdempotentWitness ==
    /\ last.ev = "CreateGroup" /\ last.applied
    /\ SEP \in Range(last.path)
    /\ last.path \in InsertPathPool
    /\ add_group_to_config(config, last.path) = config
    /\ \E p \in InsertPathPool :
          Len(GroupsOf(add_group_to_config(config, p), <<>>)) = Len(GroupsOf(config, <<>>)) + 2


(***************************************************************************)
(* TreeSpec: the tree functions of the config edits applied to config      *)
(* trees a feeds file can hold, among them a feed URL listed twice and two *)
(* sibling groups of one title (the loader checks neither).                *)
(***************************************************************************)
MaxTreeSteps == 3

TreeConfigs ==
    {<<FeedGroup(<<1>>, <<FeedSource(1, 1), FeedGroup(<<2>>, <<FeedSource(2, 2)>>)>>),
       FeedSource(3, None)>>,
     <<FeedSource(2, 2), FeedGroup(<<2>>, <<>>), FeedGroup(<<1>>, <<FeedSource(1, 1)>>)>>,
     <<FeedGroup(<<1>>, <<FeedGroup(<<2>>, <<FeedSource(1, 1)>>), FeedSource(3, 1)>>),
       FeedSource(2, 2)>>,
     <<FeedGroup(<<1>>, <<FeedGroup(<<1>>, <<>>),
                          FeedGroup(<<1>>, <<FeedSource(1, 1),
                                             FeedGroup(<<2>>, <<FeedSource(2, 2)>>)>>)>>)>>}

RemovePathPool ==
    {<<1>>, <<2>>, <<1, SEP, 2>>, <<1, SEP, 1>>, <<1, SEP, 1, SEP, 2>>, <<2, SEP, 1>>}

TreeInit ==
    /\ config \in TreeConfigs
    /\ feeds = sync_feeds_from_config(config)
    /\ empty_groups = collect_empty_groups_from_config(config)
    /\ feed_list_items = FlattenFeeds(feeds, {}, empty_groups)
    /\ feeds_state = 0
    /\ collapsed_groups = {}
    /\ articles = <<>>
    /\ articles_state = None
    /\ selected_article_id = None
    /\ article_content = EmptyContent
    /\ article_content_lines = 0
    /\ article_scroll = 0
    /\ active_pane = "Feeds"
    /\ is_refreshing = FALSE
    /\ pending_refreshes = 0
    /\ skip_articles_reload_after_feeds_load = FALSE
    /\ refresh_on_startup_pending = FALSE
    /\ store = <<>>
    /\ tasks = EmptyBag
    /\ actions_used = 0
    /\ stale = FALSE
    /\ clipboard = NoClipboard
    /\ status_message = "none"
    /\ cut_history = NoCut
    /\ last = Last("Init", None, None, FALSE)

\* a call of a tree function on self.config.feeds and nothing else
TreeStep(items) ==
    /\ actions_used < MaxTreeSteps
    /\ config' = items
    /\ actions_used' = actions_used + 1
    /\ UNCHANGED <<feedListVars, tasks, clipboard, status_message, cut_history>>
    /\ ConfigFrame

\* last.aux: how many entries carried the key before the call
TrRemoveFeed(feed_url) ==
    /\ TreeStep(remove_feed_recursive(config, feed_url).feeds)
    /\ last' = Last("RemoveFeed", feed_url, Cardinality(FeedPositions(config, feed_url)),
                    remove_feed_recursive(config, feed_url).removed)

TrRemoveGroup(group_path) ==
    /\ TreeStep(remove_group_recursive(config, group_path).feeds)
    /\ last' = [Last("RemoveGroup", None, None,
                     remove_group_recursive(config, group_path).removed)
                EXCEPT !.path = group_path]

TrInsertGroup(group_path) ==
    /\ TreeStep(add_group_to_config(config, group_path))
    /\ last' = [Last("InsertGroup", None, None, TRUE) EXCEPT !.path = group_path]

TreeNext ==
    \/ \E u \in FeedUrls : TrRemoveFeed(u)
    \/ \E p \in RemovePathPool : TrRemoveGroup(p)
    \/ \E p \in InsertPathPool : TrInsertGroup(p)

TreeSpec == TreeInit /\ [][TreeNext]_vars

\* the order in which remove_feed_recursive tries two places: the items of a
\* level in order, but within a group its direct feeds before its subgroups
SearchBefore(p, q) ==
    LET k == FirstDiff(p, q)
    IN  IF k > 1 /\ (Len(p) = k) # (Len(q) = k) THEN Len(p) = k ELSE p[k] < q[k]

\* C24, as the code has it: remove_feed_recursive removes exactly one feed
\* entry whose feed-URL field equals the key, the first in its search order
\* (a group's direct feeds before the feeds of its subgroups), and returns
\* true, every other item and the now-empty groups staying in place; with no
\* matching entry it returns false and the tree is unchanged.
RemovesFirstFoundFeed ==
    [][last'.ev = "RemoveFeed" =>
         LET P == FeedPositions(config, last'.id)
         IN  IF P = {} THEN ~last'.applied /\ config' = config
             ELSE /\ last'.applied
                  /\ \E p \in P : /\ \A q \in P \ {p} : SearchBefore(p, q)
                                  /\ config' = RemoveAtPos(config, p)]_vars

\* a removal from a tree that held the key twice, which leaves an empty group
RemovesFirstFoundFeedWitness ==
    /\ last.ev = "RemoveFeed" /\ last.applied /\ last.aux = 2
    /\ Cardinality(FeedPositions(config, last.id)) = 1
    /\ collect_empty_groups_from_config(config) # <<>>

\* C24, as the specification states it: the entry removed is the first in
\* depth-first document order.
RemovesFirstFeedInDocumentOrder ==
    [][last'.ev = "RemoveFeed" =>
         LET P == FeedPositions(config, last'.id)
         IN  IF P = {} THEN ~last'.applied /\ config' = config
             ELSE /\ last'.applied
                  /\ \E p \in P : /\ \A q \in P \ {p} : DocBefore(p, q)
                                  /\ config' = RemoveAtPos(config, p)]_vars


\* the places of the groups with a full path
RECURSIVE GroupPositions(_, _, _)
GroupPositions(items, current_path, target) ==
    UNION {IF items[i].kind # "Group" THEN {}
           ELSE (IF ChildPath(current_path, items[i].title) = target THEN {<<i>>} ELSE {})
                \cup {<<i>> \o q :
                        q \in GroupPositions(items[i].feeds,
                                             ChildPath(current_path, items[i].title), target)} :
           i \in 1..Len(items)}

\* the place the walk reaches when it finds every segment: at each level the
\* first group with the segment's title
RECURSIVE WalkPosition(_, _, _)
WalkPosition(items, components, depth) ==
    LET pos == GroupPos(items, components[depth + 1])
    IN  IF depth = Len(components) - 1 THEN <<pos>>
        ELSE <<pos>> \o WalkPosition(items[pos].feeds, components, depth + 1)

MaxSyncSteps == 4

EmptyTable == [rows |-> {}, seq |-> 0]

FeedsRow(id, pair) ==
    [id |-> id, url |-> FeedUrlOf(pair.feed), group_title |-> pair.group_path,
     title |-> pair.feed.title, site_url |-> pair.feed.url, articles |-> 0]

\* INSERT INTO feeds ... ON CONFLICT(url) DO UPDATE SET group_title, title, site_url
UpsertFeed(table, pair) ==
    IF \E r \in table.rows : r.url = FeedUrlOf(pair.feed)
    THEN [table EXCEPT !.rows =
            {IF r.url = FeedUrlOf(pair.feed)
             THEN [r EXCEPT !.group_title = pair.group_path, !.title = pair.feed.title,
                            !.site_url = pair.feed.url]
             ELSE r : r \in table.rows}]
    ELSE [rows |-> table.rows \cup {FeedsRow(table.seq + 1, pair)}, seq |-> table.seq + 1]

RECURSIVE UpsertFeeds(_, _, _)
UpsertFeeds(table, pairs, i) ==
    IF i > Len(pairs) THEN table ELSE UpsertFeeds(UpsertFeed(table, pairs[i]), pairs, i + 1)

ConfigUrls(items) ==
    LET pairs == collect_feeds(items, <<>>)
    IN  {FeedUrlOf(pairs[i].feed) : i \in 1..Len(pairs)}

\* a sync that empties the table and inserts every feed of the config anew
SyncFeedsTable_Reinsert(table, items) ==
    UpsertFeeds([table EXCEPT !.rows = {}], collect_feeds(items, <<>>), 1)

\* sync_feeds_from_config on the table: the DELETE, then the upserts in
\* config order
SyncFeedsTable(table, items) ==
    LET pairs   == collect_feeds(items, <<>>)
        deleted == IF pairs # <<>>
                   THEN [table EXCEPT !.rows = {r \in table.rows : r.url \in ConfigUrls(items)}]
                   ELSE [table EXCEPT !.rows = {}]
    IN  UpsertFeeds(deleted, pairs, 1)

\* the feeds files of the steps: the trees of TreeSpec and a file without feeds
SyncConfigs == TreeConfigs \cup {<<>>, <<FeedGroup(<<2>>, <<>>)>>}

SyncInit ==
    /\ config \in SyncConfigs
    /\ store = EmptyTable
    /\ feeds = <<>>
    /\ empty_groups = <<>>
    /\ feed_list_items = <<AllRow(0)>>
    /\ feeds_state = 0
    /\ collapsed_groups = {}
    /\ articles = <<>>
    /\ articles_state = None
    /\ selected_article_id = None
    /\ article_content = EmptyContent
    /\ article_content_lines = 0
    /\ article_scroll = 0
    /\ active_pane = "Feeds"
    /\ is_refreshing = FALSE
    /\ pending_refreshes = 0
    /\ skip_articles_reload_after_feeds_load = FALSE
    /\ refresh_on_startup_pending = FALSE
    /\ tasks = EmptyBag
    /\ actions_used = 0
    /\ stale = FALSE
    /\ clipboard = NoClipboard
    /\ status_message = "none"
    /\ cut_history = NoCut
    /\ last = Last("Init", None, None, FALSE)

SyncFrame ==
    /\ actions_used < MaxSyncSteps
    /\ actions_used' = actions_used + 1
    /\ UNCHANGED <<feedListVars, articleVars, viewVars, active_pane, refreshVars, stale,
                   skip_articles_reload_after_feeds_load, refresh_on_startup_pending,
                   tasks, clipboard, status_message, cut_history>>

\* sync_feeds_from_config at startup or after a saved edit; last.item counts the
\* rows the sync found without a feed in the config and the rows it found with
\* another group or title
SySync ==
    /\ SyncFrame
    /\ store' = SyncFeedsTable(store, config)
    /\ last' = [Last("Sync", None, None, TRUE) EXCEPT !.item =
                  [kind    |-> "Sync",
                   deleted |-> Cardinality({r \in store.rows : r.url \notin ConfigUrls(config)}),
                   updated |-> Cardinality({r \in store.rows :
                                  /\ r.url \in ConfigUrls(config)
                                  /\ r \notin SyncFeedsTable(store, config).rows})]]
    /\ UNCHANGED config

\* the feeds file changes (an edit of the application or of the user)
SySetConfig(items) ==
    /\ SyncFrame
    /\ items # config
    /\ config' = items
    /\ last' = Last("SetConfig", None, None, TRUE)
    /\ UNCHANGED store

\* upsert_articles for a feed row that has none yet
SyUpsertArticles(id) ==
    /\ SyncFrame
    /\ \E r \in store.rows : r.id = id /\ r.articles = 0
    /\ store' = [store EXCEPT !.rows =
                    {IF r.id = id THEN [r EXCEPT !.articles = 1] ELSE r : r \in store.rows}]
    /\ last' = Last("UpsertArticles", id, None, TRUE)
    /\ UNCHANGED config

SyncNext ==
    \/ SySync
    \/ \E items \in SyncConfigs : SySetConfig(items)
    \/ \E id \in 1..(3 * MaxSyncSteps) : SyUpsertArticles(id)

SyncSpec == SyncInit /\ [][SyncNext]_vars

\* C26: a sync leaves a table that a second sync with the same config does
\* not change; a row whose URL is still in the config keeps its id (and its
\* articles) and has the group path, title and site URL of a config entry
\* with that URL; every row whose URL is not in the config's flattened feed
\* list is deleted (all rows when the config has no feeds); the table holds
\* one row for every URL of the config.
SyncReconciles ==
    [][last'.ev = "Sync" =>
         LET pairs == collect_feeds(config, <<>>)
             urls  == ConfigUrls(config)
         IN  /\ SyncFeedsTable(store', config) = store'
             /\ \A r \in store.rows :
                   IF r.url \in urls
                   THEN \E r2 \in store'.rows :
                          /\ r2.id = r.id /\ r2.url = r.url /\ r2.articles = r.articles
                          /\ \E i \in 1..Len(pairs) :
                                /\ FeedUrlOf(pairs[i].feed) = r.url
                                /\ r2.group_title = pairs[i].group_path
                                /\ r2.title = pairs[i].feed.title
                                /\ r2.site_url = pairs[i].feed.url
                   ELSE \A r2 \in store'.rows : r2.id # r.id /\ r2.url # r.url
             /\ {r2.url : r2 \in store'.rows} = urls
             /\ Cardinality(store'.rows) = Cardinality(urls)
             /\ \A r2, r3 \in store'.rows : r2.id = r3.id => r2 = r3
             /\ pairs = <<>> => store'.rows = {}]_vars

\* a sync that deleted a row and changed the group or title of a row it kept
\* with its articles
SyncReconcilesWitness ==
    /\ last.ev = "Sync"
    /\ last.item.deleted >= 1 /\ last.item.updated >= 1
    /\ \E r \in store.rows : r.articles = 1


(***************************************************************************)
(* FetchSpec: refresh batches with fetch errors and store errors.  The     *)
(* feeds of the store are loaded; RefreshAll starts one fetch per feed;    *)
(* every FeedUpdateResult carries articles or an error; the task spawned   *)
(* by handle_feed_update upserts (which the store can refuse), reads the   *)
(* feeds (which the store can refuse) and posts FeedsLoaded.  The article  *)
(* pane is left out.                                                       *)
(***************************************************************************)
MaxBatches == 2

FetchInit ==
    /\ store = InitialStore
    /\ feeds = get_all_feeds(InitialStore)
    /\ empty_groups = <<>>
    /\ feed_list_items = FlattenFeeds(get_all_feeds(InitialStore), {}, <<>>)
    /\ feeds_state = 0
    /\ collapsed_groups = {}
    /\ articles = <<>>
    /\ articles_state = None
    /\ selected_article_id = None
    /\ article_content = EmptyContent
    /\ article_content_lines = 0
    /\ article_scroll = 0
    /\ active_pane = "Feeds"
    /\ is_refreshing = FALSE
    /\ pending_refreshes = 0
    /\ skip_articles_reload_after_feeds_load = FALSE
    /\ refresh_on_startup_pending = FALSE
    /\ tasks = EmptyBag
    /\ actions_used = 0
    /\ stale = FALSE
    /\ config = InitialConfig
    /\ clipboard = NoClipboard
    /\ status_message = "none"
    /\ cut_history = NoCut
    /\ last = Last("Init", None, None, FALSE)

FetchFrame ==
    UNCHANGED <<articleVars, viewVars, active_pane, stale, config, clipboard, cut_history,
                skip_articles_reload_after_feeds_load, refresh_on_startup_pending>>

\* the "Dummy to wake up" result of a failed upsert
DummyFeedsLoaded == Task("GetFeeds", "done", None, <<>>, "dummy")

\* Action::RefreshAll through update(), between two batches
FtRefreshAll ==
    /\ actions_used < MaxBatches
    /\ tasks = EmptyBag
    /\ status_message' = "none"
    /\ pending_refreshes' = StartRefreshAll(feeds).pending
    /\ is_refreshing' = StartRefreshAll(feeds).refreshing
    /\ tasks' = tasks (+) BagOfSeq(StartRefreshAll(feeds).spawned)
    /\ actions_used' = actions_used + 1
    /\ last' = Last("RefreshAll", None, None, feeds # <<>>)
    /\ UNCHANGED <<feedListVars, store>>
    /\ FetchFrame

\* a handler that gives the batch up at the first fetch error
FtFeedUpdate_Abort(t, ok) ==
    /\ BagIn(t, tasks)
    /\ t.kind = "Fetch"
    /\ tasks' = IF ok THEN (tasks (-) SetToBag({t})) (+) SetToBag({FeedUpdateTask(t.id, ok)})
                ELSE EmptyBag
    /\ status_message' = IF ok THEN status_message ELSE "Fetch error"
    /\ pending_refreshes' = IF ok THEN SaturatingDec(pending_refreshes) ELSE 0
    /\ is_refreshing' = IF pending_refreshes' = 0 THEN FALSE ELSE is_refreshing
    /\ last' = Last("FeedUpdate", t.id, None, ok)
    /\ UNCHANGED <<feedListVars, store, actions_used>>
    /\ FetchFrame

\* handle_feed_update: a FeedUpdateResult with articles (ok) or with an error
FtFeedUpdate(t, ok) ==
    /\ BagIn(t, tasks)
    /\ t.kind = "Fetch"
    /\ Consume(t, <<FeedUpdateTask(t.id, ok)>>)
    /\ status_message' = IF ok THEN status_message ELSE "Fetch error"
    /\ pending_refreshes' = SaturatingDec(pending_refreshes)
    /\ is_refreshing' = IF pending_refreshes' = 0 THEN FALSE ELSE is_refreshing
    /\ last' = Last("FeedUpdate", t.id, None, ok)
    /\ UNCHANGED <<feedListVars, store, actions_used>>
    /\ FetchFrame

\* the spawned task's db.upsert_articles: stored, or refused by the store, in
\* which case the task sends FeedsLoaded(Vec::new()) and goes on
FtUpsertArticles(t, stored) ==
    /\ BagIn(t, tasks)
    /\ t.kind = "FeedUpdate" /\ t.st = "run"
    /\ store' = IF stored
                THEN upsert_articles(store, IF t.val THEN {a \in ArticleIds : ArticleFeed[a] = t.id}
                                                     ELSE {})
                ELSE store
    /\ Consume(t, <<[t EXCEPT !.st = "read", !.val = FALSE]>>
                  \o (IF stored THEN <<>> ELSE <<DummyFeedsLoaded>>))
    /\ last' = Last("Upsert", t.id, None, stored)
    /\ UNCHANGED <<feedListVars, refreshVars, status_message, actions_used>>
    /\ FetchFrame

\* the spawned task's db.get_all_feeds: sent as FeedsLoaded, or nothing on Err
FtGetAllFeeds(t, ok) ==
    /\ BagIn(t, tasks)
    /\ t.kind = "FeedUpdate" /\ t.st = "read"
    /\ Consume(t, IF ok THEN <<[t EXCEPT !.st = "done", !.fds = get_all_feeds(store),
                                         !.val = TRUE]>>
                  ELSE <<>>)
    /\ last' = Last("GetAllFeeds", t.id, None, ok)
    /\ UNCHANGED <<feedListVars, refreshVars, store, status_message, actions_used>>
    /\ FetchFrame

\* DbResult::FeedsLoaded, the feed-list part of the handler
FtFeedsLoaded(t) ==
    /\ BagIn(t, tasks)
    /\ IsFeedsResult(t)
    /\ ApplyFeeds(t.fds)
    /\ Consume(t, <<>>)
    /\ last' = [FeedsLoadedLast(t.fds) EXCEPT !.origin = t.origin]
    /\ UNCHANGED <<refreshVars, store, status_message, actions_used>>
    /\ FetchFrame

\* MoveUp / MoveDown in the feeds pane; update() clears the status message
FtMove(delta) ==
    /\ feed_list_items # <<>>
    /\ SetCursor(MoveIdx(SelOrZero(feeds_state), delta, Len(feed_list_items)))
    /\ status_message' = "none"
    /\ last' = Last("Move", None, None, FALSE)
    /\ UNCHANGED <<refreshVars, store, tasks, actions_used>>
    /\ FetchFrame

FetchNext ==
    \/ FtRefreshAll
    \/ \E t \in TaskSet, ok \in BOOLEAN : FtFeedUpdate(t, ok)
    \/ \E t \in TaskSet, stored \in BOOLEAN : FtUpsertArticles(t, stored)
    \/ \E t \in TaskSet, ok \in BOOLEAN : FtGetAllFeeds(t, ok)
    \/ \E t \in TaskSet : FtFeedsLoaded(t)
    \/ \E d \in {0 - 1, 1} : FtMove(d)

FetchSpec == FetchInit /\ [][FetchNext]_vars

FetchesIn(B) == BagSum(B, {t \in BagToSet(B) : t.kind = "Fetch"})

\* C27: a FeedUpdateResult with an error sets the status message to the fetch
\* error and, like a result with articles, decrements the outstanding-refresh
\* counter by one (is_refreshing cleared at zero), takes only its own fetch
\* from the outstanding ones and starts the task that merges the result and
\* reloads the feeds; the sibling fetches of the batch stay outstanding.
FetchErrorCaptured ==
    [][last'.ev = "FeedUpdate" =>
         /\ pending_refreshes' = SaturatingDec(pending_refreshes)
         /\ is_refreshing' = (is_refreshing /\ pending_refreshes' # 0)
         /\ status_message' = (IF last'.applied THEN status_message ELSE "Fetch error")
         /\ FetchesIn(tasks') = FetchesIn(tasks) - 1
         /\ \A t \in BagToSet(tasks) :
               t.kind = "Fetch" /\ t.id # last'.id => CopiesIn(t, tasks') = CopiesIn(t, tasks)
         /\ CopiesIn(FeedUpdateTask(last'.id, last'.applied), tasks') =
               CopiesIn(FeedUpdateTask(last'.id, last'.applied), tasks) + 1
         /\ UNCHANGED <<feeds, feed_list_items, store>>]_vars

\* feed 2's fetch failed and the result of its sibling, feed 1, has been
\* merged since: the new article is stored and counted in the loaded feeds
FetchErrorCapturedWitness ==
    /\ last.ev = "FeedsLoaded" /\ last.origin = "fetch"
    /\ status_message = "Fetch error"
    /\ store[3] = "unread"
    /\ \E i \in 1..Len(feeds) : feeds[i].id = 1 /\ feeds[i].unread_count = 2
    /\ pending_refreshes = 0 /\ ~is_refreshing

\* C28, as the specification states it: a failed upsert of the fetched
\* articles changes neither the in-memory feed collection nor the display
\* list; the only message the failure produces is the FeedsLoaded the task
\* sends to wake the loop.
UpsertFailureSwallowed ==
    [][(last'.ev = "FeedsLoaded" /\ last'.origin = "dummy")
          => UNCHANGED <<feeds, feed_list_items>>]_vars


(***************************************************************************)
(* MarkSpec: Space and Shift+Space in the feeds pane, on feed lists with   *)
(* the groups "a", "a > b" and a sibling "ab" (or "b").  The tasks run     *)
(* and their MarkedRead results are taken from the queue; the article pane *)
(* and the reloads are left out.                                           *)
(***************************************************************************)
MaxMarks == 2

MarkFeedLists ==
    {SortFeeds({Feed(1, g1, 1), Feed(2, <<1, SEP, 2>>, 1), Feed(3, g3, 1)}) :
        g1 \in {<<>>, <<1>>}, g3 \in {<<1, 2>>, <<2>>}}

MarkInit ==
    /\ feeds \in MarkFeedLists
    /\ empty_groups = <<>>
    /\ feed_list_items = FlattenFeeds(feeds, {}, <<>>)
    /\ feeds_state = 0
    /\ collapsed_groups = {}
    /\ articles = <<>>
    /\ articles_state = None
    /\ selected_article_id = None
    /\ article_content = EmptyContent
    /\ article_content_lines = 0
    /\ article_scroll = 0
    /\ active_pane = "Feeds"
    /\ is_refreshing = FALSE
    /\ pending_refreshes = 0
    /\ skip_articles_reload_after_feeds_load = FALSE
    /\ refresh_on_startup_pending = FALSE
    /\ store = <<>>
    /\ tasks = EmptyBag
    /\ actions_used = 0
    /\ stale = FALSE
    /\ config = InitialConfig
    /\ clipboard = NoClipboard
    /\ status_message = "none"
    /\ cut_history = NoCut
    /\ last = Last("Init", None, None, FALSE)

MarkFrame ==
    UNCHANGED <<articleVars, viewVars, active_pane, refreshVars, store, stale, config,
                clipboard, cut_history, skip_articles_reload_after_feeds_load,
                refresh_on_startup_pending>>

\* Action::ToggleCollapse (Space) and Action::ToggleCollapseRecursive
\* (Shift+Space) in the feeds pane
MkMarkRead(recursive) ==
    /\ active_pane = "Feeds"
    /\ actions_used < MaxMarks
    /\ Selected.kind \in {"All", "GroupHeader", "Feed"}
    /\ tasks' = tasks (+) BagOfSeq(MarkSelectedRead(
                    IF recursive THEN GroupFeedIdsRecursive(Selected.full_path)
                    ELSE GroupFeedIds(Selected.full_path)))
    /\ status_message' = IF Selected.kind = "GroupHeader" THEN "Marked feed(s) as read"
                         ELSE "none"
    /\ actions_used' = actions_used + 1
    /\ last' = [Last(IF recursive THEN "MarkReadRecursive" ELSE "MarkRead", None,
                     feeds_state, Selected.kind = "GroupHeader")
                EXCEPT !.path = Selected.full_path]
    /\ UNCHANGED feedListVars
    /\ MarkFrame

MkMove(delta) ==
    /\ feed_list_items # <<>>
    /\ SetCursor(MoveIdx(SelOrZero(feeds_state), delta, Len(feed_list_items)))
    /\ status_message' = "none"
    /\ last' = Last("Move", None, None, FALSE)
    /\ UNCHANGED <<tasks, actions_used>>
    /\ MarkFrame

\* a mark-all-read task has run and its result has been received
MkMarkedRead(t) ==
    /\ BagIn(t, tasks)
    /\ t.kind = "MarkRead"
    /\ tasks' = tasks (-) SetToBag({t})
    /\ last' = Last("MarkedRead", t.id, None, FALSE)
    /\ UNCHANGED <<feedListVars, status_message, actions_used>>
    /\ MarkFrame

MarkNext ==
    \/ \E recursive \in BOOLEAN : MkMarkRead(recursive)
    \/ \E d \in {0 - 1, 1} : MkMove(d)
    \/ \E t \in TaskSet : MkMarkedRead(t)

MarkSpec == MarkInit /\ [][MarkNext]_vars

\* C29: Space on the header of the group with path P starts a mark-all-read
\* for exactly the feeds whose group path is P; Shift+Space starts one for
\* exactly the feeds whose group path is P or lies below P (P followed by
\* " > "), so none for a feed of a sibling group whose title only begins
\* with P; neither starts the mark-all-read of every feed.
MarkGroupTargets ==
    [][(last'.ev \in {"MarkRead", "MarkReadRecursive"} /\ Selected.kind = "GroupHeader") =>
         LET P    == Selected.full_path
             want == IF last'.ev = "MarkRead"
                     THEN {feeds[i].id : i \in {j \in 1..Len(feeds) : feeds[j].group_title = P}}
                     ELSE {feeds[i].id : i \in {j \in 1..Len(feeds) :
                                                  P \in PrefixesOf(feeds[j].group_title)}}
         IN  /\ \A id \in 1..3 :
                   CopiesIn(start_mark_all_read(id), tasks') =
                      CopiesIn(start_mark_all_read(id), tasks) + (IF id \in want THEN 1 ELSE 0)
             /\ CopiesIn(start_mark_all_read_all, tasks') =
                   CopiesIn(start_mark_all_read_all, tasks)]_vars

\* Shift+Space on "a" with feeds in "a", "a > b" and the sibling "ab": the
\* feeds of "a" and "a > b" are being marked, the feed of "ab" is not
MarkGroupTargetsWitness ==
    /\ last.ev = "MarkReadRecursive" /\ last.applied /\ last.path = <<1>>
    /\ \E i \in 1..Len(feeds) : feeds[i].id = 1 /\ feeds[i].group_title = <<1>>
    /\ \E i \in 1..Len(feeds) : feeds[i].id = 3 /\ feeds[i].group_title = <<1, 2>>
    /\ CopiesIn(start_mark_all_read(1), tasks) = 1
    /\ CopiesIn(start_mark_all_read(2), tasks) = 1
    /\ CopiesIn(start_mark_all_read(3), tasks) = 0


\* C30: in every state the feed list is non-empty with the All row at index
\* 0 and the feed cursor is Some(i) with i below the length of the list,
\* whatever cursor moves, jumps, FeedsLoaded results and collapse changes
\* came before.
FeedCursorInList ==
    /\ feed_list_items # <<>>
    /\ feed_list_items[1].kind = "All"
    /\ feeds_state # None
    /\ feeds_state \in 0..(Len(feed_list_items) - 1)

\* a FeedsLoaded result without the group the cursor was on: the list is
\* shorter than the old index and the cursor is on the last row
FeedCursorInListWitness ==
    /\ last.ev = "FeedsLoaded" /\ last.path # <<>>
    /\ last.aux > Len(feed_list_items) - 1
    /\ feeds_state = Len(feed_list_items) - 1

(***************************************************************************)
(* The article cursor.  ArticleSpec is the event loop started without     *)
(* refresh-on-start on a store in which feed 2 has no article yet, so     *)
(* that an article list can be replaced by an empty one.                  *)
(***************************************************************************)
\* the articles 1 and 3 of feed 1 are stored; feed 2 has none
SparseStore == [a \in ArticleIds |-> IF ArticleFeed[a] = 1 THEN "unread" ELSE "absent"]

ArticleInit ==
    /\ feeds = <<>>
    /\ feed_list_items = <<AllRow(0)>>
    /\ feeds_state = 0
    /\ collapsed_groups = {}
    /\ empty_groups = <<>>
    /\ articles = <<>>
    /\ articles_state = None
    /\ selected_article_id = None
    /\ article_content = EmptyContent
    /\ article_content_lines = 0
    /\ article_scroll = 0
    /\ active_pane = "Articles"
    /\ refresh_on_startup_pending = FALSE
    /\ is_refreshing = FALSE
    /\ pending_refreshes = 0
    /\ skip_articles_reload_after_feeds_load = FALSE
    /\ store = SparseStore
    /\ tasks = SetToBag({start_reload_feeds("init")})
    /\ actions_used = 0
    /\ stale = FALSE
    /\ config = InitialConfig
    /\ clipboard = NoClipboard
    /\ status_message = "none"
    /\ cut_history = NoCut
    /\ last = Last("Init", None, None, FALSE)

\* the results and the keys that load article lists or move the article cursor
ArticleNext ==
    \/ \E t \in TaskSet : DbStep(t)
    \/ \E t \in TaskSet : handle_db_result(t)
    \/ \E t \in TaskSet : handle_render_result(t)
    \/ FocusNext
    \/ FocusPrev
    \/ \E d \in Deltas : MoveFeed(d)
    \/ \E d \in Deltas : MoveArticle(d)
    \/ SelectArticle
    \/ ToggleRead
    \/ JumpToTop
    \/ JumpToBottom

ArticleSpec == ArticleInit /\ [][ArticleNext]_vars

\* C31: in every state the article cursor is None exactly when the article
\* list is empty and otherwise Some(i) with i below the number of displayed
\* articles, and selected_article_id is the id of the article at the cursor
\* (None without a cursor).
ArticleCursorInList ==
    /\ (articles_state = None) <=> (articles = <<>>)
    /\ articles_state # None => articles_state \in 0..(Len(articles) - 1)
    /\ selected_article_id = SelectedArticleId(articles, articles_state)

\* an empty article list has replaced a list whose selected article is still
\* on display: the cursor and the selected id were reset
ArticleCursorInListWitness ==
    /\ last.ev \in ArticleEvents /\ last.applied /\ last.aux = 0
    /\ articles = <<>> /\ articles_state = None /\ selected_article_id = None
    /\ article_content # EmptyContent

(***************************************************************************)
(* Automatic mark-as-read.  AutoReadSpec is the event loop in which the    *)
(* user never presses the ToggleRead key: every toggle_read task is one    *)
(* that a cursor move, Enter, a jump or a first selection on load started. *)
(***************************************************************************)
AutoReadNext ==
    \/ \E t \in TaskSet : DbStep(t)
    \/ \E t \in TaskSet : handle_db_result(t)
    \/ \E t \in TaskSet, ok \in BOOLEAN : handle_feed_update(t, ok)
    \/ \E t \in TaskSet : handle_render_result(t)
    \/ FocusNext
    \/ FocusPrev
    \/ \E d \in Deltas : MoveFeed(d)
    \/ \E d \in Deltas : MoveArticle(d)
    \/ SelectArticle
    \/ JumpToTop
    \/ JumpToBottom

AutoReadSpec == Init /\ [][AutoReadNext]_vars

\* C32: without the ToggleRead key no article's read flag in the store ever
\* changes from read to unread, in every interleaving of the automatic
\* mark-as-read requests and the ReadToggled results.
AutoMarkNeverUnreads ==
    [][\A a \in ArticleIds : store[a] = "read" => store'[a] = "read"]_vars

(***************************************************************************)
(* Cut and Paste alone.  CutPasteSpec is the feeds pane of ConfigSpec in   *)
(* which the only edits are Cut and Paste.                                 *)
(***************************************************************************)
\* "a" with feed 1 and the subgroup "b" holding feed 2, then a standalone feed
CutPasteConfig ==
    <<FeedGroup(<<1>>, <<FeedSource(1, 1), FeedGroup(<<2>>, <<FeedSource(2, 2)>>)>>),
      FeedSource(3, 3)>>

CutPasteInit ==
    /\ config = CutPasteConfig
    /\ feeds = sync_feeds_from_config(config)
    /\ empty_groups = collect_empty_groups_from_config(config)
    /\ feed_list_items = FlattenFeeds(feeds, {}, empty_groups)
    /\ feeds_state = 0
    /\ collapsed_groups = {}
    /\ articles = <<>>
    /\ articles_state = None
    /\ selected_article_id = None
    /\ article_content = EmptyContent
    /\ article_content_lines = 0
    /\ article_scroll = 0
    /\ active_pane = "Feeds"
    /\ is_refreshing = FALSE
    /\ pending_refreshes = 0
    /\ skip_articles_reload_after_feeds_load = FALSE
    /\ refresh_on_startup_pending = FALSE
    /\ store = <<>>
    /\ tasks = EmptyBag
    /\ actions_used = 0
    /\ stale = FALSE
    /\ clipboard = NoClipboard
    /\ status_message = "none"
    /\ cut_history = NoCut
    /\ last = Last("Init", None, None, FALSE)

CutPasteNext ==
    \/ \E ok \in BOOLEAN : cut_selected_item(ok)
    \/ \E ok \in BOOLEAN : paste_clipboard(ok)
    \/ \E d \in Deltas : CfMove(d)
    \/ \E t \in TaskSet : CfFeedsLoaded(t)

CutPasteSpec == CutPasteInit /\ [][CutPasteNext]_vars

\* the feed sources of a config tree
SourcesIn(items) ==
    LET pairs == collect_feeds(items, <<>>)
    IN  {pairs[i].feed : i \in 1..Len(pairs)}

\* the feed sources the clipboard slot holds
ClipboardSources ==
    IF clipboard.kind = "Feed" THEN {clipboard.feed_source}
    ELSE IF clipboard.kind = "Group" THEN SourcesIn(<<clipboard.group>>)
    ELSE {}

\* C33: after any sequence of Cut and Paste actions every feed source of the
\* initial config is in the config tree or in the clipboard slot.
NoFeedLostByCutPaste ==
    SourcesIn(CutPasteConfig) \subseteq (SourcesIn(config) \cup ClipboardSources)

(***************************************************************************)
(* ResyncSpec: config edits with the store behind them.  Every edit saves  *)
(* the feeds file (failing saves are in ConfigSpec) and spawns the task of *)
(* reload_feeds_from_config, which holds a clone of the config, runs       *)
(* sync_feeds_from_config and get_all_feeds on the feeds table and posts   *)
(* FeedsLoaded.  AsyncDb runs every command in a blocking task of its own, *)
(* so the store operations of two tasks are taken in any order.  store is  *)
(* the feeds table of SyncSpec; the id field of a displayed feed holds     *)
(* feed.url, the key the edits look for in the config.                     *)
(***************************************************************************)
MaxResyncEdits == 2

\* the table the startup sync made of CutPasteConfig, every feed with articles
ResyncTable ==
    LET t == SyncFeedsTable(EmptyTable, CutPasteConfig)
    IN  [t EXCEPT !.rows = {[r EXCEPT !.articles = 1] : r \in t.rows}]

\* get_all_feeds on the feeds table
TableFeeds(table) == SortFeeds({Feed(r.url, r.group_title, 0) : r \in table.rows})

\* the task spawned by reload_feeds_from_config with its clone of the config
ResyncTask(items) == [kind |-> "Resync", st |-> "run", config |-> items, fds |-> <<>>]

ResyncInit ==
    /\ config = CutPasteConfig
    /\ store = ResyncTable
    /\ feeds = TableFeeds(store)
    /\ empty_groups = collect_empty_groups_from_config(config)
    /\ feed_list_items = FlattenFeeds(feeds, {}, empty_groups)
    /\ feeds_state = 0
    /\ collapsed_groups = {}
    /\ articles = <<>>
    /\ articles_state = None
    /\ selected_article_id = None
    /\ article_content = EmptyContent
    /\ article_content_lines = 0
    /\ article_scroll = 0
    /\ active_pane = "Feeds"
    /\ is_refreshing = FALSE
    /\ pending_refreshes = 0
    /\ skip_articles_reload_after_feeds_load = FALSE
    /\ refresh_on_startup_pending = FALSE
    /\ tasks = EmptyBag
    /\ actions_used = 0
    /\ stale = FALSE
    /\ clipboard = NoClipboard
    /\ status_message = "none"
    /\ cut_history = NoCut
    /\ last = Last("Init", None, None, FALSE)

ResyncFrame ==
    UNCHANGED <<articleVars, viewVars, active_pane, refreshVars, stale,
                skip_articles_reload_after_feeds_load, refresh_on_startup_pending>>

CanResyncEdit ==
    active_pane = "Feeds" /\ actions_used < MaxResyncEdits /\ BagCardinality(tasks) <= MaxPending

\* an edit that has changed the tree to items, saved it and calls
\* reload_feeds_from_config
RsSaveEdit(ev, items, clip, msg, path, item) ==
    /\ config' = items
    /\ clipboard' = clip
    /\ status_message' = msg
    /\ empty_groups' = collect_empty_groups_from_config(items)
    /\ tasks' = tasks (+) SetToBag({ResyncTask(items)})
    /\ actions_used' = actions_used + 1
    /\ last' = [Last(ev, None, 1, TRUE) EXCEPT !.path = path, !.item = item]
    /\ UNCHANGED <<feeds, feed_list_items, feeds_state, collapsed_groups, store>>
    /\ ResyncFrame

\* an edit that returns before it touches the tree
RsRefuseEdit(ev, msg, clip) ==
    /\ status_message' = msg
    /\ clipboard' = clip
    /\ actions_used' = actions_used + 1
    /\ last' = Last(ev, None, 0, FALSE)
    /\ UNCHANGED <<config, feedListVars, tasks, store>>
    /\ ResyncFrame

RsCut ==
    LET g == extract_group_from_config(config, Selected.full_path)
        f == remove_and_return_feed(config, Selected.id)
    IN  /\ CanResyncEdit
        /\ IF Selected.kind = "GroupHeader" /\ g.found # NoItem
           THEN /\ RsSaveEdit("Cut", g.feeds,
                              [kind |-> "Group", original_path |-> Selected.full_path,
                               group |-> g.found],
                              "Cut group", Selected.full_path, g.found)
                /\ cut_history' = [before |-> config, after |-> g.feeds]
           ELSE IF Selected.kind = "Feed" /\ f.found # NoItem
           THEN /\ RsSaveEdit("Cut", f.feeds,
                              [kind |-> "Feed", feed_source |-> f.found,
                               original_group |-> Selected.group_title],
                              "Cut feed", Selected.group_title, f.found)
                /\ cut_history' = [before |-> config, after |-> f.feeds]
           ELSE /\ RsRefuseEdit("Cut", IF Selected.kind = "All" THEN "Cannot cut 'All'"
                                       ELSE "not found in config", clipboard)
                /\ UNCHANGED cut_history

RsPaste ==
    /\ CanResyncEdit
    /\ UNCHANGED cut_history
    /\ IF clipboard.kind = "None"
       THEN RsRefuseEdit("Paste", "Nothing to paste (clipboard is empty)", clipboard)
       ELSE IF Selected.kind = "None" THEN RsRefuseEdit("Paste", "none", clipboard)
       ELSE IF clipboard.kind = "Feed"
       THEN RsSaveEdit("Paste",
                       paste_feed_to_config(config, clipboard.feed_source,
                                            get_selected_group_path),
                       NoClipboard, "Pasted feed", get_selected_group_path,
                       clipboard.feed_source)
       ELSE RsSaveEdit("Paste",
                       paste_group_to_config(config, clipboard.group, get_selected_group_path),
                       NoClipboard, "Pasted group", get_selected_group_path, clipboard.group)

RsDelete ==
    LET g == remove_group_recursive(config, Selected.full_path)
        f == remove_feed_recursive(config, Selected.id)
    IN  /\ CanResyncEdit
        /\ UNCHANGED cut_history
        /\ IF Selected.kind = "GroupHeader" /\ g.removed
           THEN RsSaveEdit("Delete", g.feeds, clipboard, "Deleted group",
                           Selected.full_path, NoItem)
           ELSE IF Selected.kind = "Feed" /\ f.removed
           THEN RsSaveEdit("Delete", f.feeds, clipboard, "Deleted feed",
                           Selected.group_title, NoItem)
           ELSE RsRefuseEdit("Delete", IF Selected.kind = "All" THEN "Cannot delete 'All'"
                                       ELSE "not found in config", clipboard)

\* MoveUp / MoveDown in the feeds pane; update() clears the status message
RsMove(delta) ==
    /\ active_pane = "Feeds"
    /\ feed_list_items # <<>>
    /\ SetCursor(MoveIdx(SelOrZero(feeds_state), delta, Len(feed_list_items)))
    /\ status_message' = "none"
    /\ last' = Last("Move", None, None, FALSE)
    /\ UNCHANGED <<config, clipboard, cut_history, tasks, actions_used, store>>
    /\ ResyncFrame

\* db.sync_feeds_from_config(&config) of a task
RsSync(t) ==
    /\ BagIn(t, tasks) /\ t.st = "run"
    /\ store' = SyncFeedsTable(store, t.config)
    /\ tasks' = Replace(tasks, t, [t EXCEPT !.st = "read"])
    /\ last' = Last("Sync", None, None, TRUE)
    /\ UNCHANGED <<feedListVars, configVars, actions_used>>
    /\ ResyncFrame

\* db.get_all_feeds() of a task
RsGetAllFeeds(t) ==
    /\ BagIn(t, tasks) /\ t.st = "read"
    /\ tasks' = Replace(tasks, t, [t EXCEPT !.st = "done", !.fds = TableFeeds(store)])
    /\ last' = Last("Db", None, None, FALSE)
    /\ UNCHANGED <<feedListVars, configVars, actions_used, store>>
    /\ ResyncFrame

\* DbResult::FeedsLoaded of a task
RsFeedsLoaded(t) ==
    /\ BagIn(t, tasks) /\ t.st = "done"
    /\ ApplyFeeds(t.fds)
    /\ tasks' = tasks (-) SetToBag({t})
    /\ last' = FeedsLoadedLast(t.fds)
    /\ UNCHANGED <<configVars, actions_used, store>>
    /\ ResyncFrame

ResyncNext ==
    \/ RsCut
    \/ RsPaste
    \/ RsDelete
    \/ \E d \in Deltas : RsMove(d)
    \/ \E t \in TaskSet : RsSync(t)
    \/ \E t \in TaskSet : RsGetAllFeeds(t)
    \/ \E t \in TaskSet : RsFeedsLoaded(t)

ResyncSpec == ResyncInit /\ [][ResyncNext]_vars

\* the store row of the feed with the URL
RowOf(table, url) == CHOOSE r \in table.rows : r.url = url

\* C34: a feed moved by Cut and Paste is preserved in the store: once the
\* resynchronizations of both edits have completed, the feed has the store row
\* id it had before the cut and its articles are still present.
MovedFeedKeepsStoreRow ==
    (/\ last.ev = "FeedsLoaded" /\ tasks = EmptyBag
     /\ clipboard = NoClipboard
     /\ cut_history.before = CutPasteConfig
     /\ \E u \in ConfigUrls(CutPasteConfig) :
           cut_history.after = remove_and_return_feed(CutPasteConfig, u).feeds
     /\ SourcesIn(config) = SourcesIn(CutPasteConfig))
    => \A r \in ResyncTable.rows :
          \E r2 \in store.rows : r2.url = r.url /\ r2.id = r.id /\ r2.articles = r.articles

\* the (url, group path) pairs of the feeds of a config and of the table's rows
ConfigFeedKeys(items) ==
    LET pairs == collect_feeds(items, <<>>)
    IN  {<<FeedUrlOf(pairs[i].feed), pairs[i].group_path>> : i \in 1..Len(pairs)}

TableFeedKeys(table) == {<<r.url, r.group_title>> : r \in table.rows}

\* C37: once every outstanding resynchronization task has completed, the
\* store's feed rows are exactly the flattened feed list of the in-memory
\* config and the feeds of the last FeedsLoaded applied are those rows, also
\* when an edit was made before the resynchronization of the edit before it
\* had completed.
ResyncConverges ==
    tasks = EmptyBag
    => /\ TableFeedKeys(store) = ConfigFeedKeys(config)
       /\ feeds = TableFeeds(store)

(***************************************************************************)
(* StartSpec: the start of the application with refresh_on_start set, on   *)
(* the store of Spec and on a store without feeds, until every task has    *)
(* been handled.  No key is pressed.                                       *)
(***************************************************************************)
\* a store without feeds has no articles either
EmptyStore == [a \in ArticleIds |-> "absent"]

\* get_all_feeds of the initial reload on the store without feeds
EmptyFeedsLoaded == [start_reload_feeds("init") EXCEPT !.st = "done", !.val = TRUE]

StartInit ==
    /\ feeds = <<>>
    /\ feed_list_items = <<AllRow(0)>>
    /\ feeds_state = 0
    /\ collapsed_groups = {}
    /\ empty_groups = <<>>
    /\ articles = <<>>
    /\ articles_state = None
    /\ selected_article_id = None
    /\ article_content = EmptyContent
    /\ article_content_lines = 0
    /\ article_scroll = 0
    /\ active_pane = "Articles"
    /\ refresh_on_startup_pending = TRUE
    /\ is_refreshing = refresh_on_startup_pending
    /\ pending_refreshes = 0
    /\ skip_articles_reload_after_feeds_load = FALSE
    /\ \/ store = InitialStore /\ tasks = SetToBag({start_reload_feeds("init")})
       \/ store = EmptyStore /\ tasks = SetToBag({EmptyFeedsLoaded})
    /\ actions_used = 0
    /\ stale = FALSE
    /\ config = InitialConfig
    /\ clipboard = NoClipboard
    /\ status_message = "none"
    /\ cut_history = NoCut
    /\ last = Last("Init", None, None, FALSE)

StartNext ==
    \/ \E t \in TaskSet : DbStep(t)
    \/ \E t \in TaskSet : handle_db_result(t)
    \/ \E t \in TaskSet, ok \in BOOLEAN : handle_feed_update(t, ok)
    \/ \E t \in TaskSet : handle_render_result(t)

StartSpec == StartInit /\ [][StartNext]_vars

\* C35: with refresh-on-start the refresh-in-progress flag set at
\* construction is false once the first FeedsLoaded result and all started
\* fetch results have been handled, also when the store holds no feeds.
StartupRefreshEnds ==
    (~refresh_on_startup_pending /\ FetchesIn(tasks) = 0) => ~is_refreshing

\* C36: once every outstanding store result has been delivered, the read flag
\* shown for each displayed article is that article's read flag in the store,
\* also for a list that was read from the store before a later read toggle.
DisplayedReadFlagsSettle ==
    tasks = EmptyBag
    => \A i \in 1..Len(articles) :
          articles[i].is_read = (store[articles[i].id] = "read")

\* the groups among the items have pairwise distinct titles, at every level
RECURSIVE SiblingGroupsDistinct(_)
SiblingGroupsDistinct(items) ==
    /\ \A i, j \in 1..Len(items) :
          (i # j /\ items[i].kind = "Group" /\ items[j].kind = "Group")
          => items[i].title # items[j].title
    /\ \A i \in 1..Len(items) :
          items[i].kind = "Group" => SiblingGroupsDistinct(items[i].feeds)

\* C38: starting from a config tree whose sibling groups have pairwise
\* distinct titles, after any sequence of create-group, delete, cut and paste
\* operations the sibling groups of the config tree still have pairwise
\* distinct titles.
ConfigSiblingsDistinct == SiblingGroupsDistinct(config)

\* C39: every feed row the store made from the config can be deleted or cut:
\* Delete or Cut on a Feed row whose URL (the feed URL, or the site URL when
\* the source has no feed URL) is the URL of a feed source of the config
\* finds that entry and removes it.
StoredFeedCanBeRemoved ==
    [][(/\ last'.ev \in {"Cut", "Delete"}
        /\ Selected.kind = "Feed"
        /\ Selected.id \in ConfigUrls(config))
       => (/\ last'.aux = 1
           /\ Selected.id \notin ConfigUrls(config'))]_vars

\* a Feed row below the root is on display
NestedFeedRowShown(items) ==
    \E i \in 1..Len(items) : items[i].kind = "Feed" /\ items[i].depth > 0

\* what collapse_all_groups does: after CollapseAllGroups the collapsed set is the
\* set of the group_title values of the loaded feeds (the empty title of
\* standalone feeds included), so the header row of a group is collapsed
\* exactly when the group has direct feeds (a group that only contains
\* subgroups and an empty group stay expanded), and no Feed row with depth
\* greater than 0 is displayed; after ExpandAllGroups the collapsed set is
\* empty.
CollapseAllCollapsesFeedGroups ==
    [][/\ FlCollapseAll
          => /\ collapsed_groups' = FeedGroupTitles
             /\ \A i \in 1..Len(feed_list_items') :
                   feed_list_items'[i].kind = "GroupHeader"
                   => (feed_list_items'[i].collapsed
                          <=> feed_list_items'[i].full_path \in FeedGroupTitles)
             /\ ~NestedFeedRowShown(feed_list_items')
       /\ FlExpandAll => collapsed_groups' = {}]_vars

\* after a CollapseAllGroups with a standalone feed loaded: a collapsed header
\* and the expanded header of a group without direct feeds are on display
CollapseAllCollapsesFeedGroupsWitness ==
    /\ last.ev = "Collapse"
    /\ <<>> \in collapsed_groups
    /\ collapsed_groups = FeedGroupTitles
    /\ \E i \in 1..Len(feed_list_items) :
          feed_list_items[i].kind = "GroupHeader" /\ feed_list_items[i].collapsed
    /\ \E i \in 1..Len(feed_list_items) :
          feed_list_items[i].kind = "GroupHeader" /\ ~feed_list_items[i].collapsed

\* C40, as the specification states it: after CollapseAllGroups the collapsed
\* set contains the full path of every group of the tree, every group header
\* row has collapsed = TRUE and no Feed row with depth greater than 0 is
\* displayed; after ExpandAllGroups the collapsed set is empty.
CollapseAllCollapsesEveryGroup ==
    [][/\ FlCollapseAll
          => /\ NodePaths \subseteq collapsed_groups'
             /\ \A i \in 1..Len(feed_list_items') :
                   feed_list_items'[i].kind = "GroupHeader" => feed_list_items'[i].collapsed
             /\ ~NestedFeedRowShown(feed_list_items')
       /\ FlExpandAll => collapsed_groups' = {}]_vars

====
